---- MODULE Spec2Model ----
(***************************************************************************)
(* A model of the FPL analysis tool: the HTTP client with its time-boxed   *)
(* cache and rate limit (src/src/api/fpl_client.py), the player and        *)
(* fixture analyzers and the transfer advisor built on it                  *)
(* (src/src/analysis/*.py), and the report pipeline                        *)
(* (src/generate_reports.py).                                              *)
(*                                                                         *)
(* Time is counted in ticks of 1/TicksPerSecond seconds.  Numbers with     *)
(* decimals are kept as integers in hundredths (x100) or tenths (x10).     *)
(* Strings that the code searches in (team names, short codes) are         *)
(* sequences of one-character strings.                                     *)
(***************************************************************************)
EXTENDS Integers, Sequences, FiniteSets, TLC

VARIABLES
    now,                \* the wall clock, time.time(), in ticks
    cache,              \* FPLClient.cache: endpoint -> <<data, timestamp>>
    cache_duration,     \* FPLClient.cache_duration, in seconds
    last_request_time,  \* FPLClient.last_request_time
    last_issue,         \* history: when the client last issued a network call (-1: never)
    pa,                 \* the PlayerAnalyzer object (players_df, teams_df), or NoObject
    fa,                 \* the FixtureAnalyzer object (fixtures_df, teams_df), or NoObject
    pc,                 \* the report pipeline's position
    session,            \* history: the network calls of the report pipeline's run
    reports,            \* the report files the pipeline has written
    lastOp              \* history: the last operation, its pre-state and its outcome

vars == <<now, cache, cache_duration, last_request_time, last_issue, pa, fa, pc, session,
          reports, lastOp>>

----------------------------------------------------------------------------
(* Bounds of the model and constants of the program.                       *)

TicksPerSecond == 2
StartTime == 2
MaxDur == 1
MaxOver == 1
min_request_interval == 1

\* The client alone: the clock's last tick and the constructor's cache_duration.
ClientMaxTime == 5
ClientCacheDuration == 1

\* The scoring functions: the lists of at most MaxFixtures fixtures in
\* gameweeks 1..MaxGameweek that the fixture table is built from.
MaxFixtures == 2
MaxGameweek == 2

\* The report pipeline: the last tick at which a report starts, and the
\* default cache_duration of the clients it constructs.
PipelineMaxTime == 4
PipelineCacheDuration == 4

\* A transfer advisor and its analyzers on one client: the last tick at which
\* an operation starts, and the constructor's cache_duration.
AnalyzerMaxTime == 6
AnalyzerCacheDuration == 2

----------------------------------------------------------------------------
(* JSON values.  A document is a record tagged with its JSON kind.  The     *)
(* client's cache, its results and the analyzers hold the server's         *)
(* documents by reference, Ref(name), as the Python objects do; Doc gives  *)
(* the document a value stands for.                                        *)

None == [kind |-> "None"]

EmptyList == [kind |-> "list", items |-> <<>>]

----------------------------------------------------------------------------
(* The server's data.  Teams, players (elements), gameweeks (events) and   *)
(* fixtures as the API returns them.                                       *)

Fulham == [id |-> 1, name |-> <<"F","u","l","h","a","m">>, short_name |-> <<"F","U","L">>]
Everton == [id |-> 2, name |-> <<"E","v","e","r","t","o","n">>, short_name |-> <<"E","V","E">>]
Spurs == [id |-> 3, name |-> <<"S","p","u","r","s">>, short_name |-> <<"T","O","T">>]

Teams == <<Fulham, Everton, Spurs>>

TeamIds == {Teams[i].id : i \in DOMAIN Teams}

\* A player as /bootstrap-static/ lists it.  form, selected_by_percent and
\* points_per_game are decimal strings with one decimal: kept in tenths.  The
\* statistics columns no scoring function reads (minutes, goals, ...) are left
\* out.
Player(id, web_name, team, etype, cost, points, form, own, ppg, status) ==
    [id |-> id, web_name |-> web_name, team |-> team, element_type |-> etype,
     now_cost |-> cost, total_points |-> points, form |-> form,
     selected_by_percent |-> own, points_per_game |-> ppg, status |-> status]

ElementsA ==
    << Player(1, "Iwobi", 1, 3, 70, 60, 55, 200, 50, "a"),
       Player(2, "Beto", 2, 4, 45, 30, 20, 30, 25, "a"),
       Player(3, "Porro", 3, 2, 50, 10, 10, 120, 10, "i") >>

ElementsB ==
    << Player(1, "Iwobi", 1, 3, 71, 66, 60, 210, 52, "a"),
       Player(2, "Beto", 2, 4, 45, 30, 15, 30, 24, "d"),
       Player(3, "Porro", 3, 2, 50, 21, 30, 160, 20, "a") >>

Event(id, cur, nxt) == [id |-> id, is_current |-> cur, is_next |-> nxt]

EventsCurrent == << Event(1, TRUE, FALSE), Event(2, FALSE, TRUE) >>
EventsNoCurrent == << Event(1, FALSE, TRUE), Event(2, FALSE, FALSE) >>

Bootstrap(elements, events) ==
    [kind |-> "dict", teams |-> Teams, elements |-> elements, events |-> events]

BootstrapA == Bootstrap(ElementsA, EventsCurrent)
BootstrapB == Bootstrap(ElementsB, EventsNoCurrent)

Fixture(id, gw, h, a, dh, da, fin) ==
    [id |-> id, event |-> gw, team_h |-> h, team_a |-> a,
     team_h_difficulty |-> dh, team_a_difficulty |-> da, finished |-> fin]

FixturesA ==
    [kind |-> "list",
     items |-> << Fixture(1, 1, 1, 2, 2, 5, FALSE), Fixture(2, 2, 3, 1, 3, 4, FALSE) >>]

FixturesB ==
    [kind |-> "list",
     items |-> << Fixture(1, 1, 1, 2, 2, 5, TRUE), Fixture(2, 2, 3, 1, 3, 4, FALSE),
                  Fixture(3, 2, 2, 1, 2, 3, FALSE) >>]

SummaryA == [kind |-> "dict", history |-> <<6, 2>>, fixtures |-> <<2>>]
SummaryB == [kind |-> "dict", history |-> <<6, 2, 9>>, fixtures |-> <<>>]

LiveA == [kind |-> "dict", elements |-> <<1>>]
LiveB == [kind |-> "dict", elements |-> <<1, 2>>]

BOOTSTRAP == "/bootstrap-static/"
FIXTURES == "/fixtures/"
SUMMARY == "/element-summary/1/"
LIVE == "/event/1/live/"

Endpoints == {BOOTSTRAP, FIXTURES, SUMMARY, LIVE}

Ref(name) == [doc |-> name]

Doc(p) ==
    IF "doc" \in DOMAIN p
    THEN CASE p.doc = "BootstrapA" -> BootstrapA
           [] p.doc = "BootstrapB" -> BootstrapB
           [] p.doc = "FixturesA" -> FixturesA
           [] p.doc = "FixturesB" -> FixturesB
           [] p.doc = "EmptyList" -> EmptyList
           [] p.doc = "SummaryA" -> SummaryA
           [] p.doc = "SummaryB" -> SummaryB
           [] p.doc = "LiveA" -> LiveA
           [] p.doc = "LiveB" -> LiveB
    ELSE p

\* Python's truth value of a JSON payload: None, [] and {} are false.
Truthy(p) ==
    LET d == Doc(p)
    IN CASE d.kind = "None" -> FALSE
         [] d.kind = "list" -> Len(d.items) > 0
         [] OTHER -> DOMAIN d # {"kind"}

\* What a 2xx response of an endpoint can carry.  The fixtures list may be
\* empty.
ServerPayloads(endpoint) ==
    CASE endpoint = BOOTSTRAP -> {Ref("BootstrapA"), Ref("BootstrapB")}
      [] endpoint = FIXTURES -> {Ref("FixturesA"), Ref("FixturesB"), Ref("EmptyList")}
      [] endpoint = LIVE -> {Ref("LiveA"), Ref("LiveB")}
      [] OTHER -> {Ref("SummaryA"), Ref("SummaryB")}

\* requests.exceptions.RequestException: timeout, non-2xx status (raised by
\* raise_for_status), connection failure.
RequestException(cause) == [kind |-> "RequestException", cause |-> cause]

Failures == {RequestException(c) : c \in {"timeout", "status", "connection"}}

IsFailure(resp) == "cause" \in DOMAIN resp

----------------------------------------------------------------------------
(* FPLClient.  A client "world" w is the client's fields and the clock     *)
(* while one operation runs, with the operation's network calls (net) and  *)
(* the time it slept: [cache, last_request_time, now, net, slept].         *)

EmptyCache == [k \in {} |-> None]

\* FPLClient.__init__(cache_duration) at clock t.
NewClient(t, duration) ==
    [cache |-> EmptyCache, cache_duration |-> duration, last_request_time |-> 0,
     now |-> t, net |-> <<>>, slept |-> 0]

\* time.sleep(d): at least d, and over more.
Sleep(w, d, over) == [w EXCEPT !.now = @ + d + over, !.slept = @ + d + over]

\* FPLClient._rate_limit
RateLimitNoSleep(w, over) == [w EXCEPT !.last_request_time = w.now]

RateLimit(w, over) ==
    LET current_time == w.now
        time_since_last == current_time - w.last_request_time
        interval == min_request_interval * TicksPerSecond
        w1 == IF time_since_last < interval
              THEN Sleep(w, interval - time_since_last, over)
              ELSE w
    IN [w1 EXCEPT !.last_request_time = w1.now]

\* FPLClient._get_cached
GetCached(w, key) ==
    IF key \in DOMAIN w.cache
    THEN LET data == w.cache[key][1]
             timestamp == w.cache[key][2]
         IN IF w.now - timestamp < w.cache_duration * TicksPerSecond THEN data ELSE None
    ELSE None

\* FPLClient._set_cache
SetCache(w, key, data) ==
    [w EXCEPT !.cache = [k \in DOMAIN w.cache \cup {key} |->
                            IF k = key THEN <<data, w.now>> ELSE w.cache[k]]]

\* The generic error _make_request raises, carrying the cause.
FetchFailed(e) == [kind |-> "Exception", message |-> "FPL API request failed", cause |-> e.cause]

IsFetchFailed(res) == "message" \in DOMAIN res

\* session.get(url, timeout=10), raise_for_status(), response.json(): the
\* call is issued at the current clock and takes inp.dur.
HttpGet(w, endpoint, inp) ==
    [w EXCEPT !.net = Append(@, [endpoint |-> endpoint, at |-> w.now, resp |-> inp.resp]),
              !.now = @ + inp.dur]

\* FPLClient._make_request: [w: the world after, res: the value returned or
\* the error raised, raised: the error's class or "none"].
MakeRequestDropOnFailure(w, endpoint, use_cache, inp) ==
    LET cached == IF use_cache THEN GetCached(w, endpoint) ELSE None
    IN IF use_cache /\ Truthy(cached)
       THEN [w |-> w, res |-> cached, raised |-> "none"]
       ELSE LET w2 == HttpGet(RateLimit(w, inp.over), endpoint, inp)
            IN IF IsFailure(inp.resp)
               THEN [w |-> [w2 EXCEPT !.cache = [k \in DOMAIN w2.cache \ {endpoint} |-> w2.cache[k]]],
                     res |-> FetchFailed(inp.resp), raised |-> "Exception"]
               ELSE [w |-> IF use_cache THEN SetCache(w2, endpoint, inp.resp) ELSE w2,
                     res |-> inp.resp, raised |-> "none"]

\* A request that stores the payload whatever use_cache says.
MakeRequestAlwaysStoring(w, endpoint, use_cache, inp) ==
    LET cached == IF use_cache THEN GetCached(w, endpoint) ELSE None
    IN IF use_cache /\ Truthy(cached)
       THEN [w |-> w, res |-> cached, raised |-> "none"]
       ELSE LET w2 == HttpGet(RateLimit(w, inp.over), endpoint, inp)
            IN IF IsFailure(inp.resp)
               THEN [w |-> w2, res |-> FetchFailed(inp.resp), raised |-> "Exception"]
               ELSE [w |-> SetCache(w2, endpoint, inp.resp),
                     res |-> inp.resp, raised |-> "none"]

MakeRequest(w, endpoint, use_cache, inp) ==
    LET cached == IF use_cache THEN GetCached(w, endpoint) ELSE None
    IN IF use_cache /\ Truthy(cached)
       THEN [w |-> w, res |-> cached, raised |-> "none"]
       ELSE LET w2 == HttpGet(RateLimit(w, inp.over), endpoint, inp)
            IN IF IsFailure(inp.resp)
               THEN [w |-> w2, res |-> FetchFailed(inp.resp), raised |-> "Exception"]
               ELSE [w |-> IF use_cache THEN SetCache(w2, endpoint, inp.resp) ELSE w2,
                     res |-> inp.resp, raised |-> "none"]

\* The inputs a request reads: a cache hit reads none, and a call that need
\* not sleep reads no overshoot.  The parts not read are fixed, so that one
\* run is one transition.
NoInput == [resp |-> RequestException("timeout"), dur |-> 0, over |-> 0]

InputsFor(w, endpoint, use_cache) ==
    LET hit == use_cache /\ Truthy(GetCached(w, endpoint))
        sleeps == w.now - w.last_request_time < min_request_interval * TicksPerSecond
    IN IF hit
       THEN {NoInput}
       ELSE [resp : ServerPayloads(endpoint) \cup Failures, dur : 0..MaxDur,
             over : IF sleeps THEN 0..MaxOver ELSE {0}]

\* The inputs of a cached fetch that an analyzer makes: the response comes at
\* once, a sleep ends on time, and a failure is a non-2xx status.
LoadInputsFor(w, endpoint) ==
    IF Truthy(GetCached(w, endpoint))
    THEN {NoInput}
    ELSE [resp : ServerPayloads(endpoint) \cup {RequestException("status")},
          dur : {0}, over : {0}]

\* FPLClient.get_bootstrap_static / get_fixtures / get_player_summary /
\* get_live_gameweek
GetBootstrapStatic(w, use_cache, inp) == MakeRequest(w, BOOTSTRAP, use_cache, inp)

GetFixtures(w, use_cache, inp) == MakeRequest(w, FIXTURES, use_cache, inp)

PlayerSummaryEndpoint(player_id) == "/element-summary/" \o ToString(player_id) \o "/"

GetPlayerSummary(w, player_id, use_cache, inp) ==
    MakeRequest(w, PlayerSummaryEndpoint(player_id), use_cache, inp)

GetLiveGameweek(w, use_cache, inp) == MakeRequest(w, LIVE, use_cache, inp)

\* FPLClient.clear_cache
ClearCacheKeep(w) == w

ClearCache(w) == [w EXCEPT !.cache = EmptyCache]

\* A Python int, where the value can also be None.
PyInt(v) == [kind |-> "int", value |-> v]

\* FPLClient.get_current_gameweek: the id of the first event flagged current,
\* or None.
GetCurrentGameweek(w, inp) ==
    LET r == GetBootstrapStatic(w, TRUE, inp)
    IN IF r.raised # "none"
       THEN r
       ELSE LET events == Doc(r.res).events
                current == {i \in DOMAIN events : events[i].is_current}
            IN [w |-> r.w,
                res |-> IF current = {} THEN None
                        ELSE PyInt(events[CHOOSE i \in current : \A j \in current : i <= j].id),
                raised |-> "none"]

\* FPLClient.get_next_gameweek: the id of the first event flagged next, or
\* None.
GetNextGameweek(w, inp) ==
    LET r == GetBootstrapStatic(w, TRUE, inp)
    IN IF r.raised # "none"
       THEN r
       ELSE LET events == Doc(r.res).events
                next == {i \in DOMAIN events : events[i].is_next}
            IN [w |-> r.w,
                res |-> IF next = {} THEN None
                        ELSE PyInt(events[CHOOSE i \in next : \A j \in next : i <= j].id),
                raised |-> "none"]

ValueError(message) == [kind |-> "ValueError", text |-> message]

\* for record in records: if record['id'] == id: return record; then Missing
FirstWithId(records, id, Missing) ==
    LET found == {i \in DOMAIN records : records[i].id = id}
    IN IF found = {} THEN Missing
       ELSE [res |-> records[CHOOSE i \in found : \A j \in found : i <= j], raised |-> "none"]

\* A lookup that ends with return None.
NotFoundAsNone(fixture_id) == [res |-> None, raised |-> "none"]

\* raise ValueError(f"Fixture {fixture_id} not found")
FixtureNotFound(fixture_id) ==
    [res |-> ValueError("Fixture " \o ToString(fixture_id) \o " not found"),
     raised |-> "ValueError"]

\* FPLClient.get_fixture
GetFixture(w, fixture_id, use_cache, inp) ==
    LET r == GetFixtures(w, use_cache, inp)
    IN IF r.raised # "none"
       THEN r
       ELSE LET out == FirstWithId(Doc(r.res).items, fixture_id, FixtureNotFound(fixture_id))
            IN [w |-> r.w, res |-> out.res, raised |-> out.raised]

\* FPLClient.get_all_players
GetAllPlayers(w, inp) ==
    LET r == GetBootstrapStatic(w, TRUE, inp)
    IN IF r.raised # "none" THEN r
       ELSE [w |-> r.w, res |-> Doc(r.res).elements, raised |-> "none"]

\* FPLClient.get_all_teams
GetAllTeams(w, inp) ==
    LET r == GetBootstrapStatic(w, TRUE, inp)
    IN IF r.raised # "none" THEN r
       ELSE [w |-> r.w, res |-> Doc(r.res).teams, raised |-> "none"]

\* FPLClient.get_player_by_id
GetPlayerById(w, player_id, inp) ==
    LET r == GetAllPlayers(w, inp)
    IN IF r.raised # "none"
       THEN r
       ELSE LET out == FirstWithId(r.res, player_id, NotFoundAsNone(player_id))
            IN [w |-> r.w, res |-> out.res, raised |-> out.raised]

\* FPLClient.get_team_by_id
GetTeamById(w, team_id, inp) ==
    LET r == GetAllTeams(w, inp)
    IN IF r.raised # "none"
       THEN r
       ELSE LET out == FirstWithId(r.res, team_id, NotFoundAsNone(team_id))
            IN [w |-> r.w, res |-> out.res, raised |-> out.raised]

\* FPLClient.get_cache_info
GetCacheInfo(w) ==
    [kind |-> "dict", cached_endpoints |-> Cardinality(DOMAIN w.cache),
     endpoints |-> DOMAIN w.cache, cache_duration |-> w.cache_duration]

----------------------------------------------------------------------------
(* Strings, numbers and pandas tables.  A name is its sequence of           *)
(* characters.  A decimal is an integer count of tenths, hundredths or     *)
(* thousandths.  A DataFrame is its set of columns and its rows in order.  *)

UpperCase == <<"A","B","C","D","E","F","G","H","I","J","K","L","M",
               "N","O","P","Q","R","S","T","U","V","W","X","Y","Z">>

LowerCase == <<"a","b","c","d","e","f","g","h","i","j","k","l","m",
               "n","o","p","q","r","s","t","u","v","w","x","y","z">>

\* str.lower and str.upper
Lower(str) ==
    [i \in DOMAIN str |->
        IF \E k \in DOMAIN UpperCase : UpperCase[k] = str[i]
        THEN LowerCase[CHOOSE k \in DOMAIN UpperCase : UpperCase[k] = str[i]]
        ELSE str[i]]

Upper(str) ==
    [i \in DOMAIN str |->
        IF \E k \in DOMAIN LowerCase : LowerCase[k] = str[i]
        THEN UpperCase[CHOOSE k \in DOMAIN LowerCase : LowerCase[k] = str[i]]
        ELSE str[i]]

\* Python's "sub in str"
In(sub, str) ==
    \E i \in 0..(Len(str) - Len(sub)) : SubSeq(str, i + 1, i + Len(sub)) = sub

\* Series.str.contains(pat, case=False) on one value, for a pattern of letters
\* (the pattern is a regular expression; a name of letters matches itself).
StrContains(str, pat) == In(Lower(pat), Lower(str))

\* sep.join(strs)
Join(sep, strs) ==
    LET RECURSIVE J(_)
        J(k) == IF k = 0 THEN <<>>
                ELSE IF k = 1 THEN strs[1]
                ELSE J(k - 1) \o sep \o strs[k]
    IN J(Len(strs))

\* sum(xs)
Sum(xs) ==
    LET RECURSIVE S(_)
        S(k) == IF k = 0 THEN 0 ELSE S(k - 1) + xs[k]
    IN S(Len(xs))

\* num / den rounded to an integer, halves to the even neighbour, as
\* round(x, 2) and Series.round(2) do at the last kept digit (den > 0).  The
\* binary floating point error of the operands is not represented.
RoundDiv(num, den) ==
    LET n == IF num < 0 THEN -num ELSE num
        q == n \div den
        r == n % den
        m == IF 2 * r < den THEN q
             ELSE IF 2 * r > den THEN q + 1
             ELSE IF q % 2 = 0 THEN q ELSE q + 1
    IN IF num < 0 THEN -m ELSE m

NaN == [kind |-> "NaN"]

\* The floats that are not finite numbers, in a numeric column: a division by
\* zero gives inf (or -inf, or nan for 0 / 0), and a missing number is nan.
\* Infinity is above every finite number of a table, and NotANumber is told
\* apart by the operators that compare, sort or add.
Infinity == 1000000

NotANumber == -2000000

IsFinite(x) == x \notin {Infinity, -Infinity, NotANumber}

\* a == b on floats: nan equals nothing
FloatEq(a, b) == a # NotANumber /\ b # NotANumber /\ a = b

\* (num / den).round(2) on float columns, num and den finite: num is scaled
\* so that the quotient is in the unit kept.
FloatDiv(num, den) ==
    IF den # 0 THEN RoundDiv(num, den)
    ELSE IF num > 0 THEN Infinity
    ELSE IF num < 0 THEN -Infinity
    ELSE NotANumber

\* pd.DataFrame(items): the columns are the keys of the items, and an empty
\* list gives a frame with no column.
DataFrame(items) ==
    [columns |-> IF items = <<>> THEN {} ELSE DOMAIN items[1], rows |-> items]

\* df[c] = F(row), row by row
Assign(df, c, F(_)) ==
    [columns |-> df.columns \cup {c},
     rows |-> [i \in DOMAIN df.rows |->
                 [f \in DOMAIN df.rows[i] \cup {c} |->
                     IF f = c THEN F(df.rows[i]) ELSE df.rows[i][f]]]]

\* df[Test(row)]
Where(df, Test(_)) == [columns |-> df.columns, rows |-> SelectSeq(df.rows, Test)]

\* df[columns]
Project(df, columns) ==
    [columns |-> columns,
     rows |-> [i \in DOMAIN df.rows |-> [f \in columns |-> df.rows[i][f]]]]

\* df.head(n)
FrameHead(df, n) ==
    [columns |-> df.columns,
     rows |-> SubSeq(df.rows, 1, IF n < Len(df.rows) THEN n ELSE Len(df.rows))]

\* dict(zip(df[k], df[v])): the last row of a key wins
DictZip(df, k, v) ==
    [key \in {df.rows[i][k] : i \in DOMAIN df.rows} |->
        LET last == CHOOSE i \in DOMAIN df.rows :
                        /\ df.rows[i][k] = key
                        /\ \A j \in DOMAIN df.rows : df.rows[j][k] = key => j <= i
        IN df.rows[last][v]]

\* Series.map(dict) on one value: a key the dict lacks maps to NaN
MapGet(dict, key) == IF key \in DOMAIN dict THEN dict[key] ELSE NaN

\* Series.unique(): the distinct values of a column in order of appearance
Unique(df, c) ==
    LET RECURSIVE U(_)
        U(k) == IF k = 0 THEN <<>>
                ELSE IF \E j \in 1..(k - 1) : df.rows[j][c] = df.rows[k][c]
                     THEN U(k - 1)
                     ELSE Append(U(k - 1), df.rows[k][c])
    IN U(Len(df.rows))

\* df.sort_values(key, ascending): the frames the call can return.  The sort
\* is numpy's quicksort, which is not stable: the rows are in key order and
\* rows of equal key are in any order.  Rows whose key is nan come last in
\* either direction (na_position='last').
SortValues(df, Key(_), ascending) ==
    LET n == Len(df.rows)
        InOrder(p) ==
            \A i \in 1..(n - 1) :
                LET a == Key(df.rows[p[i]])
                    b == Key(df.rows[p[i + 1]])
                IN IF b = NotANumber THEN TRUE
                   ELSE IF a = NotANumber THEN FALSE
                   ELSE IF ascending THEN a <= b ELSE a >= b
    IN {[columns |-> df.columns, rows |-> [i \in 1..n |-> df.rows[p[i]]]] :
           p \in {q \in Permutations(1..n) : InOrder(q)}}

----------------------------------------------------------------------------
(* PlayerAnalyzer and FixtureAnalyzer: loading.  An operation that uses the *)
(* client takes the object (self) and the client's world and gives         *)
(* [w, self, res, raised]: the world and the object after, and the value   *)
(* returned or the error raised.                                           *)

KeyError(key) == [kind |-> "KeyError", key |-> key]

IndexError == [kind |-> "IndexError"]

Positions ==
    (1 :> <<"G","K","P">>) @@ (2 :> <<"D","E","F">>) @@
    (3 :> <<"M","I","D">>) @@ (4 :> <<"F","W","D">>)

\* PlayerAnalyzer.__init__ before _load_data
NewPlayerAnalyzer == [kind |-> "PlayerAnalyzer", players_df |-> None, teams_df |-> None]

\* total_points / value with no rounding to 2 decimals, the rest cut off
PointsPerMillionTruncated(total_points, value) ==
    IF value = 0 THEN FloatDiv(total_points, value) ELSE (total_points * 1000) \div value

\* (total_points / value).round(2), in hundredths, for a value in tenths
PointsPerMillion(total_points, value) == FloatDiv(total_points * 1000, value)

\* PlayerAnalyzer._load_data after its fetch: the tables of a bootstrap
\* document.  value is kept in tenths of a million (now_cost / 10.0 millions
\* is now_cost tenths) and points_per_million in hundredths.
PlayerTables(self, data) ==
    LET players == DataFrame(data.elements)
        teams_df == DataFrame(data.teams)
        team_map == DictZip(teams_df, "id", "name")
        named == Assign(players, "team_name", LAMBDA row : MapGet(team_map, row.team))
        placed == Assign(named, "position", LAMBDA row : MapGet(Positions, row.element_type))
        valued == Assign(placed, "value", LAMBDA row : row.now_cost)
        rated == Assign(valued, "points_per_million",
                        LAMBDA row : PointsPerMillion(row.total_points, row.value))
    IN [self EXCEPT !.players_df = rated, !.teams_df = teams_df]

\* PlayerAnalyzer._load_data: the outcomes [w, self, res, raised].  An
\* operation that fetches has one outcome for the inputs it is given.
PlayerAnalyzerLoadData(self, w, inp) ==
    {IF r.raised # "none"
     THEN [w |-> r.w, self |-> self, res |-> r.res, raised |-> r.raised]
     ELSE [w |-> r.w, self |-> PlayerTables(self, Doc(r.res)), res |-> None,
           raised |-> "none"] :
        r \in {GetBootstrapStatic(w, TRUE, inp)}}

\* PlayerAnalyzer(client)
PlayerAnalyzerInit(w, inp) == PlayerAnalyzerLoadData(NewPlayerAnalyzer, w, inp)

\* PlayerAnalyzer.refresh_data
PlayerAnalyzerRefreshData(self, w, inp) == PlayerAnalyzerLoadData(self, ClearCache(w), inp)

\* FixtureAnalyzer.__init__ before _load_data
NewFixtureAnalyzer == [kind |-> "FixtureAnalyzer", fixtures_df |-> None, teams_df |-> None]

\* FixtureAnalyzer._load_data from the name mapping on: the four name columns
\* joined to the fixtures.
JoinTeamNames(fixtures_df, teams_df) ==
    LET team_map == DictZip(teams_df, "id", "name")
        short_map == DictZip(teams_df, "id", "short_name")
        h == Assign(fixtures_df, "home_team_name", LAMBDA row : MapGet(team_map, row.team_h))
        a == Assign(h, "away_team_name", LAMBDA row : MapGet(team_map, row.team_a))
        hs == Assign(a, "home_short", LAMBDA row : MapGet(short_map, row.team_h))
    IN Assign(hs, "away_short", LAMBDA row : MapGet(short_map, row.team_a))

\* FixtureAnalyzer._load_data: the outcomes [w, self, res, raised].
\* fixtures_df is assigned when the fixtures have arrived, before the
\* bootstrap is fetched.
FixtureAnalyzerLoadData(self, w, inps) ==
    UNION {IF r1.raised # "none"
           THEN {[w |-> r1.w, self |-> self, res |-> r1.res, raised |-> r1.raised]}
           ELSE {IF r2.raised # "none"
                 THEN [w |-> r2.w, self |-> s1, res |-> r2.res, raised |-> r2.raised]
                 ELSE LET s2 == [s1 EXCEPT !.teams_df = DataFrame(Doc(r2.res).teams)]
                      IN IF "team_h" \notin s2.fixtures_df.columns
                         THEN [w |-> r2.w, self |-> s2, res |-> KeyError("team_h"),
                               raised |-> "KeyError"]
                         ELSE [w |-> r2.w,
                               self |-> [s2 EXCEPT !.fixtures_df =
                                            JoinTeamNames(s2.fixtures_df, s2.teams_df)],
                               res |-> None, raised |-> "none"] :
                    s1 \in {[self EXCEPT !.fixtures_df = DataFrame(Doc(r1.res).items)]},
                    r2 \in {GetBootstrapStatic(r1.w, TRUE, inps[2])}} :
              r1 \in {GetFixtures(w, TRUE, inps[1])}}

\* FixtureAnalyzer(client)
FixtureAnalyzerInit(w, inps) == FixtureAnalyzerLoadData(NewFixtureAnalyzer, w, inps)

\* FixtureAnalyzer.refresh_data
FixtureAnalyzerRefreshKeepCache(self, w, inps) == FixtureAnalyzerLoadData(self, w, inps)

FixtureAnalyzerRefreshData(self, w, inps) ==
    FixtureAnalyzerLoadData(self, ClearCache(w), inps)

\* The inputs _load_data reads: those of the fixtures fetch and, when it
\* succeeded, those of the bootstrap fetch that follows it.
FixtureLoadInputs(w) ==
    UNION {UNION {{<<i1, i2>> : i2 \in IF r1.raised = "none"
                                       THEN LoadInputsFor(r1.w, BOOTSTRAP)
                                       ELSE {NoInput}} :
                     r1 \in {GetFixtures(w, TRUE, i1)}} :
              i1 \in LoadInputsFor(w, FIXTURES)}

----------------------------------------------------------------------------
(* FixtureAnalyzer: scoring.  A scoring function gives the set of its       *)
(* possible outcomes [res, raised], one for each order in which its sorts  *)
(* can leave rows of equal key.  Difficulty averages are in hundredths.    *)

UpcomingColumns ==
    {"event", "home_short", "away_short", "team_h_difficulty", "team_a_difficulty"}

\* The upcoming fixtures matched on the home side's name only.
GetUpcomingFixturesHomeOnly(self, team_name, n) ==
    LET df == self.fixtures_df
    IN IF "home_team_name" \notin df.columns
       THEN {[res |-> KeyError("home_team_name"), raised |-> "KeyError"]}
       ELSE LET of_team == Where(df, LAMBDA row :
                                      StrContains(row.home_team_name, team_name))
                future == Where(of_team, LAMBDA row : row.finished = FALSE)
            IN {[res |-> FrameHead(Project(sorted, UpcomingColumns), n), raised |-> "none"] :
                   sorted \in SortValues(future, LAMBDA row : row.event, TRUE)}

\* FixtureAnalyzer.get_upcoming_fixtures
GetUpcomingFixtures(self, team_name, n) ==
    LET df == self.fixtures_df
    IN IF "home_team_name" \notin df.columns
       THEN {[res |-> KeyError("home_team_name"), raised |-> "KeyError"]}
       ELSE LET of_team == Where(df, LAMBDA row :
                                      \/ StrContains(row.home_team_name, team_name)
                                      \/ StrContains(row.away_team_name, team_name))
                future == Where(of_team, LAMBDA row : row.finished = FALSE)
            IN {[res |-> FrameHead(Project(sorted, UpcomingColumns), n), raised |-> "none"] :
                   sorted \in SortValues(future, LAMBDA row : row.event, TRUE)}

\* FixtureAnalyzer.get_fixture_difficulty
GetFixtureDifficulty(self, team_name, n) ==
    LET Entry(row) ==
            IF In(Lower(team_name), Lower(row.home_short))
            THEN [gameweek |-> row.event, opponent |-> row.away_short, venue |-> "H",
                  difficulty |-> row.team_h_difficulty]
            ELSE [gameweek |-> row.event, opponent |-> row.home_short, venue |-> "A",
                  difficulty |-> row.team_a_difficulty]
        Analysis(fixtures) ==
            IF fixtures.rows = <<>>
            THEN [team |-> team_name, avg_difficulty |-> 0, fixtures |-> <<>>]
            ELSE LET fixture_list == [i \in DOMAIN fixtures.rows |-> Entry(fixtures.rows[i])]
                     difficulties == [i \in DOMAIN fixture_list |-> fixture_list[i].difficulty]
                 IN [team |-> team_name,
                     avg_difficulty |-> RoundDiv(Sum(difficulties) * 100, Len(difficulties)),
                     total_difficulty |-> Sum(difficulties),
                     fixtures |-> fixture_list]
    IN {IF u.raised # "none" THEN u ELSE [res |-> Analysis(u.res), raised |-> "none"] :
           u \in GetUpcomingFixtures(self, team_name, n)}

\* One outcome of each call of a loop of n calls: run[i] is the outcome of
\* the i-th call, whose possible outcomes are Options(i).
LoopRuns(n, Options(_)) ==
    LET RECURSIVE Runs(_)
        Runs(k) == IF k = 0 THEN {<<>>}
                   ELSE {Append(run, outcome) : run \in Runs(k - 1), outcome \in Options(k)}
    IN Runs(n)

\* The error that ends a loop: the one the first failing call raised.
FirstRaised(run) ==
    LET failed == {i \in DOMAIN run : run[i].raised # "none"}
    IN run[CHOOSE i \in failed : \A j \in failed : i <= j]

\* FixtureAnalyzer.get_best_fixtures
GetBestFixtures(self, n_gameweeks) ==
    LET teams == self.teams_df.rows
        Shown(analysis) ==
            LET fs == analysis.fixtures
                first5 == SubSeq(fs, 1, IF Len(fs) < 5 THEN Len(fs) ELSE 5)
            IN Join(<<" ">>, [k \in DOMAIN first5 |->
                                 first5[k].opponent \o <<"(", first5[k].venue, ")">>])
        Outcomes(run) ==
            IF \E i \in DOMAIN run : run[i].raised # "none"
            THEN {FirstRaised(run)}
            ELSE LET results == [i \in DOMAIN teams |->
                                    [team |-> teams[i].short_name,
                                     team_name |-> teams[i].name,
                                     avg_difficulty |-> run[i].res.avg_difficulty,
                                     fixtures |-> Shown(run[i].res)]]
                 IN IF results = <<>>
                    THEN {[res |-> KeyError("avg_difficulty"), raised |-> "KeyError"]}
                    ELSE {[res |-> sorted, raised |-> "none"] :
                             sorted \in SortValues(DataFrame(results),
                                                   LAMBDA row : row.avg_difficulty, TRUE)}
    IN UNION {Outcomes(run) :
                 run \in LoopRuns(Len(teams),
                                  LAMBDA i : GetFixtureDifficulty(self, teams[i].name,
                                                                  n_gameweeks))}

\* FixtureAnalyzer.get_worst_fixtures
GetWorstFixtures(self, n_gameweeks) ==
    UNION {IF best.raised # "none"
           THEN {best}
           ELSE {[res |-> sorted, raised |-> "none"] :
                    sorted \in SortValues(best.res, LAMBDA row : row.avg_difficulty, FALSE)} :
              best \in GetBestFixtures(self, n_gameweeks)}

\* The calls of a loop nested in a loop, in the order they are made.
LoopPairs(outer, inner) ==
    [k \in 1..(Len(outer) * Len(inner)) |->
        <<outer[((k - 1) \div Len(inner)) + 1], inner[((k - 1) % Len(inner)) + 1]>>]

\* len(df[(df['event'] == gw) & (df['team_h'] == team_id)]): home fixtures only
FixtureCountHome(df, team_id, gw) ==
    Cardinality({i \in DOMAIN df.rows :
                    FloatEq(df.rows[i].event, gw) /\ df.rows[i].team_h = team_id})

\* home + away of get_double_gameweeks for a team and a gameweek
FixtureCount(df, team_id, gw) ==
    Cardinality({i \in DOMAIN df.rows :
                    FloatEq(df.rows[i].event, gw) /\ df.rows[i].team_h = team_id})
    + Cardinality({i \in DOMAIN df.rows :
                      FloatEq(df.rows[i].event, gw) /\ df.rows[i].team_a = team_id})

\* FixtureAnalyzer.get_double_gameweeks.  An event the payload gives as null
\* is nan in the table: unique() keeps one nan, and nan equals no event.
GetDoubleGameweeks(self) ==
    IF "finished" \notin self.fixtures_df.columns
    THEN {[res |-> KeyError("finished"), raised |-> "KeyError"]}
    ELSE LET df == Where(self.fixtures_df, LAMBDA row : row.finished = FALSE)
             doubles == SelectSeq(LoopPairs(self.teams_df.rows, Unique(df, "event")),
                                  LAMBDA c : FixtureCount(df, c[1].id, c[2]) > 1)
             dgw_data == [k \in DOMAIN doubles |->
                             [gameweek |-> doubles[k][2], team |-> doubles[k][1].short_name,
                              fixtures |-> FixtureCount(df, doubles[k][1].id, doubles[k][2])]]
         IN IF dgw_data = <<>>
            THEN {[res |-> [columns |-> {"gameweek", "team", "fixtures"}, rows |-> <<>>],
                   raised |-> "none"]}
            ELSE {[res |-> sorted, raised |-> "none"] :
                     sorted \in SortValues(DataFrame(dgw_data), LAMBDA row : row.gameweek, TRUE)}

\* sorted(values) of distinct numbers.  A nan among them stays where the
\* comparisons leave it; here it is first, and the callers sort the rows
\* they build from the list again.
Sorted(values) ==
    LET S == {values[i] : i \in DOMAIN values}
    IN [k \in 1..Cardinality(S) |->
           CHOOSE v \in S : Cardinality({u \in S : u < v}) = k - 1]

\* FixtureAnalyzer.get_blank_gameweeks
GetBlankGameweeks(self) ==
    IF "finished" \notin self.fixtures_df.columns
    THEN {[res |-> KeyError("finished"), raised |-> "KeyError"]}
    ELSE LET df == Where(self.fixtures_df, LAMBDA row : row.finished = FALSE)
             all_gws == Sorted(Unique(df, "event"))
             HasFixture(team_id, gw) ==
                 \E i \in DOMAIN df.rows :
                     /\ FloatEq(df.rows[i].event, gw)
                     /\ (df.rows[i].team_h = team_id \/ df.rows[i].team_a = team_id)
             blanks == SelectSeq(LoopPairs(self.teams_df.rows, all_gws),
                                 LAMBDA c : ~HasFixture(c[1].id, c[2]))
             blank_data == [k \in DOMAIN blanks |->
                               [gameweek |-> blanks[k][2], team |-> blanks[k][1].short_name]]
         IN IF blank_data = <<>>
            THEN {[res |-> [columns |-> {"gameweek", "team"}, rows |-> <<>>], raised |-> "none"]}
            ELSE {[res |-> sorted, raised |-> "none"] :
                     sorted \in SortValues(DataFrame(blank_data), LAMBDA row : row.gameweek, TRUE)}

\* FixtureAnalyzer.get_fixture_ticker: the outcomes [w, res, raised].  A row
\* of the ticker is the team and its cells, by gameweek number (the column
\* "GW<number>").  The fixtures get_upcoming_fixtures returns have no team_h
\* column, so fixture.get('team_h', 0) is 0.
GetFixtureTicker(self, w, n_gameweeks, inp) ==
    LET teams == self.teams_df.rows
        Cell(team, fixture, columns) ==
            LET team_h == IF "team_h" \in columns THEN fixture.team_h ELSE 0
            IN IF team.id = team_h
               THEN fixture.away_short
                    \o <<"(", "H", ")", "[", ToString(fixture.team_h_difficulty), "]">>
               ELSE fixture.home_short
                    \o <<"(", "A", ")", "[", ToString(fixture.team_a_difficulty), "]">>
        Row(team, fixtures, current_gw) ==
            [team |-> team.short_name,
             cells |-> [gw \in {current_gw + i - 1 : i \in DOMAIN fixtures.rows} |->
                           Cell(team, fixtures.rows[gw - current_gw + 1], fixtures.columns)]]
        Ticker(run, r, current_gw) ==
            IF \E i \in DOMAIN run : run[i].raised # "none"
            THEN [w |-> r.w, res |-> FirstRaised(run).res, raised |-> FirstRaised(run).raised]
            ELSE [w |-> r.w,
                  res |-> [i \in DOMAIN teams |-> Row(teams[i], run[i].res, current_gw)],
                  raised |-> "none"]
    IN UNION {IF r.raised # "none"
              THEN {r}
              ELSE {Ticker(run, r, current_gw) :
                       run \in LoopRuns(Len(teams),
                                        LAMBDA i : GetUpcomingFixtures(self, teams[i].name,
                                                                       n_gameweeks)),
                       current_gw \in {IF r.res.kind = "int" /\ r.res.value # 0
                                       THEN r.res.value ELSE 1}} :
                 r \in {GetCurrentGameweek(w, inp)}}

----------------------------------------------------------------------------
(* PlayerAnalyzer.get_player_details and TransferAdvisor.  An optional      *)
(* argument is None, PyStr(characters) or PyFloat(tenths).                 *)

PyStr(chars) == [kind |-> "str", value |-> chars]

PyFloat(tenths) == [kind |-> "float", value |-> tenths]

\* The truth value of an optional argument: None, "" and 0 are false.
ArgTruthy(arg) ==
    CASE arg.kind = "None" -> FALSE
      [] arg.kind = "str" -> arg.value # <<>>
      [] OTHER -> arg.value # 0

\* position.upper() of the filter df['position'] == position.upper()
OfPosition(df, position) ==
    IF ArgTruthy(position)
    THEN Where(df, LAMBDA row : row.position = Upper(position.value))
    ELSE df

\* The filter "if max_price: df = df[df['value'] <= max_price]"
Affordable(df, max_price) ==
    IF ArgTruthy(max_price)
    THEN Where(df, LAMBDA row : row.value <= max_price.value)
    ELSE df

BestValueColumns ==
    {"web_name", "team_name", "position", "value", "total_points", "points_per_million",
     "form", "selected_by_percent"}

\* PlayerAnalyzer.get_best_value_players: outcomes [res, raised]
GetBestValuePlayers(self, n, position, max_price) ==
    LET df == Where(Affordable(OfPosition(self.players_df, position), max_price),
                    LAMBDA row : row.status = "a" /\ row.total_points > 0)
    IN {[res |-> FrameHead(Project(sorted, BestValueColumns), n), raised |-> "none"] :
           sorted \in SortValues(df, LAMBDA row : row.points_per_million, FALSE)}

DifferentialColumns ==
    {"web_name", "team_name", "position", "value", "total_points", "form",
     "selected_by_percent", "diff_score", "points_per_million"}

\* (points_per_million * form).round(2), in hundredths: inf * 0 is nan.
DiffScore(points_per_million, form) ==
    IF IsFinite(points_per_million) THEN RoundDiv(points_per_million * form, 10)
    ELSE IF points_per_million = NotANumber \/ form = 0 THEN NotANumber
    ELSE IF form > 0 THEN points_per_million
    ELSE -points_per_million

\* The filter of get_differential_picks without its ownership test.
DifferentialAnyOwnership(df, max_ownership, min_points) ==
    Where(df, LAMBDA row : row.status = "a" /\ row.total_points >= min_points)

\* The filter of get_differential_picks.  max_ownership is in tenths of a
\* percent, as selected_by_percent is.
Differential(df, max_ownership, min_points) ==
    Where(df, LAMBDA row : /\ row.status = "a"
                           /\ row.selected_by_percent <= max_ownership
                           /\ row.total_points >= min_points)

\* PlayerAnalyzer.get_differential_picks: outcomes [res, raised].
GetDifferentialPicks(self, n, max_ownership, min_points) ==
    LET df == Differential(self.players_df, max_ownership, min_points)
        scored == Assign(df, "diff_score",
                         LAMBDA row : DiffScore(row.points_per_million, row.form))
    IN {[res |-> FrameHead(Project(sorted, DifferentialColumns), n), raised |-> "none"] :
           sorted \in SortValues(scored, LAMBDA row : row.diff_score, FALSE)}

\* PlayerAnalyzer.get_player_details: [w, res, raised].  A summary fetch
\* that raises is caught, and the details are returned without history and
\* fixtures.
GetPlayerDetails(self, w, player_id, inp) ==
    LET found == Where(self.players_df, LAMBDA row : row.id = player_id)
    IN IF found.rows = <<>>
       THEN [w |-> w, res |-> IndexError, raised |-> "IndexError"]
       ELSE LET player == found.rows[1]
                details == [web_name |-> player.web_name,
                            team |-> player.team_name,
                            position |-> player.position,
                            price |-> player.value,
                            total_points |-> player.total_points,
                            form |-> player.form,
                            points_per_game |-> player.points_per_game,
                            ownership |-> player.selected_by_percent,
                            points_per_million |-> player.points_per_million,
                            status |-> player.status]
                r == GetPlayerSummary(w, player_id, TRUE, inp)
                summary == Doc(r.res)
            IN IF r.raised # "none"
               THEN [w |-> r.w, res |-> details, raised |-> "none"]
               ELSE [w |-> r.w,
                     res |-> [f \in DOMAIN details \cup {"history", "fixtures"} |->
                                 IF f \in DOMAIN details THEN details[f]
                                 ELSE IF f \in DOMAIN summary THEN summary[f] ELSE <<>>],
                     raised |-> "none"]

\* The inputs get_player_details reads: those of the summary fetch of a
\* player it finds.
PlayerDetailsInputs(self, w, player_id) ==
    IF \E i \in DOMAIN self.players_df.rows : self.players_df.rows[i].id = player_id
    THEN LoadInputsFor(w, PlayerSummaryEndpoint(player_id))
    ELSE {NoInput}

TargetColumns ==
    {"web_name", "team_name", "position", "value", "form", "points_per_million",
     "selected_by_percent", "transfer_score", "total_points"}

\* form * 4 + points_per_million * 0.3 + fixture_score * 3, rounded to 2
\* decimals: form in tenths, the other two and the result in hundredths.
TransferScore(form, points_per_million, fixture_score) ==
    IF IsFinite(points_per_million)
    THEN RoundDiv(form * 400 + points_per_million * 3 + fixture_score * 30, 10)
    ELSE points_per_million

\* TransferAdvisor.get_transfer_targets: outcomes [res, raised]
GetTransferTargets(player_analyzer, fixture_analyzer, position, max_price, n) ==
    LET all == player_analyzer.players_df
        affordable == Affordable(OfPosition(all, position), max_price)
        df == Where(affordable, LAMBDA row : row.status = "a" /\ row.total_points > 20)
        team_ids == Unique(df, "team")
        TeamsWithId(team_id) ==
            SelectSeq(player_analyzer.teams_df.rows, LAMBDA team : team.id = team_id)
        Options(k) ==
            IF TeamsWithId(team_ids[k]) = <<>>
            THEN {[res |-> IndexError, raised |-> "IndexError"]}
            ELSE GetFixtureDifficulty(fixture_analyzer, TeamsWithId(team_ids[k])[1].name, 5)
        Outcomes(run) ==
            IF \E k \in DOMAIN run : run[k].raised # "none"
            THEN {FirstRaised(run)}
            ELSE LET fixture_scores ==
                         [team_id \in {team_ids[k] : k \in DOMAIN team_ids} |->
                             LET k == CHOOSE j \in DOMAIN team_ids : team_ids[j] = team_id
                             IN 500 - run[k].res.avg_difficulty]
                     scored == Assign(df, "transfer_score", LAMBDA row :
                                   TransferScore(row.form, row.points_per_million,
                                                 fixture_scores[row.team]))
                 IN {[res |-> FrameHead(Project(sorted, TargetColumns), n), raised |-> "none"] :
                        sorted \in SortValues(scored, LAMBDA row : row.transfer_score, FALSE)}
    IN UNION {Outcomes(run) : run \in LoopRuns(Len(team_ids), Options)}

\* TransferAdvisor.get_budget_options
GetBudgetOptions(player_analyzer, fixture_analyzer, position, max_price, n) ==
    GetTransferTargets(player_analyzer, fixture_analyzer, position, max_price, n)

OutColumns ==
    {"web_name", "team_name", "position", "value", "form", "status",
     "selected_by_percent", "fixture_difficulty", "sell_score"}

\* ((5 - form) * 2 + fixture_difficulty * 2 + value * 0.5).round(2), times 1.5
\* for a player who is not available; form and value are in tenths,
\* fixture_difficulty in hundredths and the result in thousandths.
SellScore(form, fixture_difficulty, value, status) ==
    LET score == ((50 - form) * 20 + fixture_difficulty * 2 + value * 5) * 10
    IN IF status # "a" THEN (score * 3) \div 2 ELSE score

\* The outcomes of the loop over df['team'].unique(): Options(team) are the
\* outcomes of the call made for a team of the teams table.
TeamLoopRuns(player_analyzer, team_ids, Options(_)) ==
    LET TeamsWithId(team_id) ==
            SelectSeq(player_analyzer.teams_df.rows, LAMBDA team : team.id = team_id)
        OptionsAt(k) ==
            IF TeamsWithId(team_ids[k]) = <<>>
            THEN {[res |-> IndexError, raised |-> "IndexError"]}
            ELSE Options(TeamsWithId(team_ids[k])[1])
    IN LoopRuns(Len(team_ids), OptionsAt)

\* The position of a value in a sequence that holds it.
IndexOf(seq, value) == CHOOSE k \in DOMAIN seq : seq[k] = value

\* TransferAdvisor.get_transfer_out_candidates: outcomes [res, raised]
GetTransferOutCandidates(player_analyzer, fixture_analyzer, n) ==
    LET df == Where(player_analyzer.players_df, LAMBDA row : row.selected_by_percent > 100)
        team_ids == Unique(df, "team")
        Difficulty(team) == GetFixtureDifficulty(fixture_analyzer, team.name, 5)
        Outcomes(run) ==
            IF \E k \in DOMAIN run : run[k].raised # "none"
            THEN {FirstRaised(run)}
            ELSE LET rated == Assign(df, "fixture_difficulty", LAMBDA row :
                                  run[IndexOf(team_ids, row.team)].res.avg_difficulty)
                     scored == Assign(rated, "sell_score", LAMBDA row :
                                   SellScore(row.form, row.fixture_difficulty, row.value,
                                             row.status))
                 IN {[res |-> FrameHead(Project(sorted, OutColumns), n), raised |-> "none"] :
                        sorted \in SortValues(scored, LAMBDA row : row.sell_score, FALSE)}
    IN UNION {Outcomes(run) : run \in TeamLoopRuns(player_analyzer, team_ids, Difficulty)}

CaptaincyColumns ==
    {"web_name", "team_name", "position", "opponent", "form", "points_per_game",
     "captain_score", "selected_by_percent"}

\* fixture.get('team_h', 0) on a row of a table
FixtureTeamH(fixture) == IF "team_h" \in DOMAIN fixture THEN fixture.team_h ELSE 0

\* The entry of fixture_scores for a team, from its upcoming fixtures.
FixtureScore(team_id, fixtures) ==
    IF fixtures.rows # <<>>
    THEN LET fixture == fixtures.rows[1]
             home == team_id = FixtureTeamH(fixture)
             difficulty == IF home THEN fixture.team_h_difficulty
                           ELSE fixture.team_a_difficulty
         IN [difficulty |-> difficulty,
             opponent |-> IF home THEN fixture.away_short ELSE fixture.home_short,
             score |-> 5 - difficulty]
    ELSE [difficulty |-> 3, opponent |-> <<"T", "B", "D">>, score |-> 2]

\* (form * 5 + fixture_score * 4 + points_per_game).round(2), in hundredths:
\* form and points_per_game are in tenths.
CaptainScore(form, fixture_score, points_per_game) ==
    form * 50 + fixture_score * 400 + points_per_game * 10

\* TransferAdvisor.get_captaincy_picks: outcomes [res, raised]
GetCaptaincyPicks(player_analyzer, fixture_analyzer, n) ==
    LET df == Where(player_analyzer.players_df,
                    LAMBDA row : row.status = "a" /\ row.selected_by_percent > 150)
        team_ids == Unique(df, "team")
        Upcoming(team) == GetUpcomingFixtures(fixture_analyzer, team.name, 1)
        Outcomes(run) ==
            IF \E k \in DOMAIN run : run[k].raised # "none"
            THEN {FirstRaised(run)}
            ELSE LET ScoreOf(team_id) ==
                         FixtureScore(team_id, run[IndexOf(team_ids, team_id)].res)
                     rated == Assign(df, "fixture_score", LAMBDA row : ScoreOf(row.team).score)
                     named == Assign(rated, "opponent", LAMBDA row : ScoreOf(row.team).opponent)
                     scored == Assign(named, "captain_score", LAMBDA row :
                                   CaptainScore(row.form, row.fixture_score,
                                                row.points_per_game))
                 IN {[res |-> FrameHead(Project(sorted, CaptaincyColumns), n),
                      raised |-> "none"] :
                        sorted \in SortValues(scored, LAMBDA row : row.captain_score, FALSE)}
    IN UNION {Outcomes(run) : run \in TeamLoopRuns(player_analyzer, team_ids, Upcoming)}

\* TransferAdvisor.suggest_transfers: outcomes [w, res, raised].  price_diff
\* is in tenths and form_diff in hundredths.
SuggestTransfers(player_analyzer, fixture_analyzer, w, player_out_id, budget, same_position, inp) ==
    LET Compared(targets, player_out) ==
            LET priced == Assign(targets, "price_diff",
                                 LAMBDA row : row.value - player_out.price)
                formed == Assign(priced, "form_diff",
                                 LAMBDA row : (row.form - player_out.form) * 10)
            IN FrameHead(formed, 10)
    IN UNION {IF d.raised # "none"
              THEN {d}
              ELSE {IF t.raised # "none"
                    THEN [w |-> d.w, res |-> t.res, raised |-> t.raised]
                    ELSE [w |-> d.w, res |-> Compared(t.res, d.res), raised |-> "none"] :
                       t \in GetTransferTargets(player_analyzer, fixture_analyzer,
                                                IF same_position THEN PyStr(d.res.position)
                                                ELSE None,
                                                budget, 15)} :
                 d \in {GetPlayerDetails(player_analyzer, w, player_out_id, inp)}}

\* TransferAdvisor._assess_wildcard: outcomes [res, raised]
AssessWildcard(fixture_analyzer) ==
    {IF best.raised # "none"
     THEN best
     ELSE LET rows == best.res.rows
              total == Sum([i \in DOMAIN rows |-> rows[i].avg_difficulty])
          IN [res |-> IF total > 350 * Len(rows)
                      THEN "Consider Wildcard - Many teams have tough fixtures"
                      ELSE IF total < 250 * Len(rows)
                           THEN "Good time for Wildcard - Many teams have easy fixtures"
                           ELSE "Neutral - No strong signal for Wildcard",
              raised |-> "none"] :
        best \in GetBestFixtures(fixture_analyzer, 5)}

\* The gameweek of the first row of a frame only.
ChipGameweeksFirstOnly(frame) ==
    IF frame.rows = <<>> THEN <<>> ELSE <<frame.rows[1].gameweek>>

\* list(frame['gameweek'].unique()) if not frame.empty else []
ChipGameweeks(frame) == IF frame.rows = <<>> THEN <<>> ELSE Unique(frame, "gameweek")

\* TransferAdvisor.analyze_chip_strategy: outcomes [w, res, raised]
AnalyzeChipStrategy(fixture_analyzer, w, inp) ==
    LET Gameweeks(frame) == ChipGameweeks(frame)
        Recommendations(current_gw, dgw, bgw, fixtures, wildcard) ==
            [current_gameweek |-> current_gw,
             wildcard_recommendation |-> wildcard,
             bench_boost_gameweeks |-> Gameweeks(dgw),
             triple_captain_gameweeks |-> Gameweeks(dgw),
             free_hit_gameweeks |-> Gameweeks(bgw),
             best_fixture_teams |-> LET top == FrameHead(fixtures, 3).rows
                                    IN [i \in DOMAIN top |-> top[i].team]]
    IN UNION {IF r.raised # "none"
              THEN {r}
              ELSE {IF \E i \in 1..4 : c[i].raised # "none"
                    THEN [w |-> r.w, res |-> FirstRaised(c).res,
                          raised |-> FirstRaised(c).raised]
                    ELSE [w |-> r.w,
                          res |-> Recommendations(r.res, c[1].res, c[2].res, c[3].res,
                                                  c[4].res),
                          raised |-> "none"] :
                       c \in GetDoubleGameweeks(fixture_analyzer)
                             \X GetBlankGameweeks(fixture_analyzer)
                             \X GetBestFixtures(fixture_analyzer, 5)
                             \X AssessWildcard(fixture_analyzer)} :
                 r \in {GetCurrentGameweek(w, inp)}}

\* TransferAdvisor(client): the outcomes [w, player_analyzer,
\* fixture_analyzer, res, raised].  A constructor that raises leaves no
\* object.
TransferAdvisorInit(w, inps) ==
    UNION {IF p.raised # "none"
           THEN {[w |-> p.w, player_analyzer |-> [kind |-> "None"],
                  fixture_analyzer |-> [kind |-> "None"], res |-> p.res,
                  raised |-> p.raised]}
           ELSE {IF f.raised # "none"
                 THEN [w |-> f.w, player_analyzer |-> [kind |-> "None"],
                       fixture_analyzer |-> [kind |-> "None"], res |-> f.res,
                       raised |-> f.raised]
                 ELSE [w |-> f.w, player_analyzer |-> p.self, fixture_analyzer |-> f.self,
                       res |-> None, raised |-> "none"] :
                    f \in FixtureAnalyzerInit(p.w, <<inps[2], inps[3]>>)} :
              p \in PlayerAnalyzerInit(w, inps[1])}

\* TransferAdvisor.refresh_data
TransferAdvisorRefreshData(player_analyzer, fixture_analyzer, w, inps) ==
    UNION {IF p.raised # "none"
           THEN {[w |-> p.w, player_analyzer |-> p.self,
                  fixture_analyzer |-> fixture_analyzer, res |-> p.res,
                  raised |-> p.raised]}
           ELSE {[w |-> f.w, player_analyzer |-> p.self, fixture_analyzer |-> f.self,
                  res |-> f.res, raised |-> f.raised] :
                    f \in FixtureAnalyzerRefreshData(fixture_analyzer, p.w,
                                                     <<inps[2], inps[3]>>)} :
              p \in PlayerAnalyzerRefreshData(player_analyzer, ClearCache(w), inps[1])}

\* The inputs the constructor and refresh_data read: those of the player
\* analyzer's fetch and, when it succeeded, those of the fixture analyzer's.
AdvisorInitInputs(w) ==
    UNION {UNION {IF p.raised # "none"
                  THEN {<<i1, NoInput, NoInput>>}
                  ELSE {<<i1>> \o rest : rest \in FixtureLoadInputs(p.w)} :
                     p \in PlayerAnalyzerInit(w, i1)} :
              i1 \in LoadInputsFor(w, BOOTSTRAP)}

AdvisorRefreshInputs(w) ==
    UNION {UNION {IF p.raised # "none"
                  THEN {<<i1, NoInput, NoInput>>}
                  ELSE {<<i1>> \o rest : rest \in FixtureLoadInputs(ClearCache(p.w))} :
                     p \in PlayerAnalyzerInit(ClearCache(w), i1)} :
              i1 \in LoadInputsFor(ClearCache(w), BOOTSTRAP)}

----------------------------------------------------------------------------
(* generate_reports.py.  Each report function constructs its analyzer with  *)
(* no client argument, so with a client of its own, FPLClient(), made at   *)
(* the clock t with the default cache_duration.  A report gives            *)
(* [w, res, raised]: w is the world of its client, with the network calls  *)
(* it made, and res the file it wrote.  The tables a report computes from  *)
(* its loaded analyzer without a fetch are rendered into the file, whose   *)
(* content is not represented.                                             *)

TypeError == [kind |-> "TypeError"]

\* generate_dashboard
GenerateDashboard(t, duration) ==
    [w |-> NewClient(t, duration), res |-> "index.html", raised |-> "none"]

\* generate_player_report
GeneratePlayerReport(t, duration, inp) ==
    {IF analyzer.raised # "none"
     THEN [w |-> analyzer.w, res |-> analyzer.res, raised |-> analyzer.raised]
     ELSE [w |-> analyzer.w, res |-> "players.html", raised |-> "none"] :
        analyzer \in PlayerAnalyzerInit(NewClient(t, duration), inp)}

\* generate_fixture_report: get_fixture_ticker fetches the current gameweek.
GenerateFixtureReport(t, duration, inps) ==
    UNION {IF analyzer.raised # "none"
           THEN {[w |-> analyzer.w, res |-> analyzer.res, raised |-> analyzer.raised]}
           ELSE {IF ticker.raised # "none"
                 THEN ticker
                 ELSE [w |-> ticker.w, res |-> "fixtures.html", raised |-> "none"] :
                    ticker \in GetFixtureTicker(analyzer.self, analyzer.w, 5, inps[3])} :
              analyzer \in FixtureAnalyzerInit(NewClient(t, duration), <<inps[1], inps[2]>>)}

\* The tables generate_transfer_report computes before the chip strategy:
\* the error the first failing call raised, or none.
TransferReportTables(player_analyzer, fixture_analyzer) ==
    {IF targets.raised # "none" THEN targets
     ELSE IF sell_candidates.raised # "none" THEN sell_candidates
     ELSE IF captains.raised # "none" THEN captains
     ELSE [res |-> None, raised |-> "none"] :
        targets \in GetTransferTargets(player_analyzer, fixture_analyzer, None, None, 10),
        sell_candidates \in GetTransferOutCandidates(player_analyzer, fixture_analyzer, 10),
        captains \in GetCaptaincyPicks(player_analyzer, fixture_analyzer, 10)}

\* generate_transfer_report: analyze_chip_strategy fetches the current
\* gameweek, and the page shows chips['current_gameweek'] + 1.
GenerateTransferReport(t, duration, inps) ==
    UNION {IF advisor.raised # "none"
           THEN {[w |-> advisor.w, res |-> advisor.res, raised |-> advisor.raised]}
           ELSE UNION {IF tables.raised # "none"
                       THEN {[w |-> advisor.w, res |-> tables.res, raised |-> tables.raised]}
                       ELSE {IF chips.raised # "none"
                             THEN chips
                             ELSE IF chips.res.current_gameweek.kind = "None"
                                  THEN [w |-> chips.w, res |-> TypeError,
                                        raised |-> "TypeError"]
                                  ELSE [w |-> chips.w, res |-> "transfers.html",
                                        raised |-> "none"] :
                                chips \in AnalyzeChipStrategy(advisor.fixture_analyzer,
                                                              advisor.w, inps[4])} :
                          tables \in TransferReportTables(advisor.player_analyzer,
                                                          advisor.fixture_analyzer)} :
              advisor \in TransferAdvisorInit(NewClient(t, duration),
                                              <<inps[1], inps[2], inps[3]>>)}

\* The inputs the fixture and the transfer report read: those of the
\* constructor and, when it succeeded, of the fetch of the current gameweek.
FixtureReportInputs(t, duration) ==
    UNION {UNION {{load \o <<i3>> : i3 \in IF analyzer.raised = "none"
                                           THEN LoadInputsFor(analyzer.w, BOOTSTRAP)
                                           ELSE {NoInput}} :
                     analyzer \in FixtureAnalyzerInit(NewClient(t, duration), load)} :
              load \in FixtureLoadInputs(NewClient(t, duration))}

TransferReportInputs(t, duration) ==
    UNION {UNION {{init \o <<i4>> : i4 \in IF advisor.raised = "none"
                                           THEN LoadInputsFor(advisor.w, BOOTSTRAP)
                                           ELSE {NoInput}} :
                     advisor \in TransferAdvisorInit(NewClient(t, duration), init)} :
              init \in AdvisorInitInputs(NewClient(t, duration))}

----------------------------------------------------------------------------
(* The state machine.  Every operation runs to completion (the program is  *)
(* single-threaded); lastOp records what it was given, the state it        *)
(* started in and what it returned or raised.                              *)

NoObject == [kind |-> "None"]

\* The client of the state, as a world with an empty log.
World == [cache |-> cache, cache_duration |-> cache_duration,
          last_request_time |-> last_request_time, now |-> now, net |-> <<>>, slept |-> 0]

Before ==
    [cache |-> cache, last_request_time |-> last_request_time, now |-> now,
     last_issue |-> last_issue, pa |-> pa, fa |-> fa]

\* The cache a clear_cache dropped, when no fetch has followed it yet.
AfterClear ==
    IF lastOp.op = "clear_cache"
    THEN [cleared |-> TRUE, cache |-> lastOp.before.cache]
    ELSE IF lastOp.op = "get_cache_info"
         THEN lastOp.after_clear
         ELSE [cleared |-> FALSE, cache |-> EmptyCache]

OpRecord(op, endpoint, use_cache, r) ==
    [op |-> op, endpoint |-> endpoint, use_cache |-> use_cache, before |-> Before,
     after_clear |-> AfterClear, net |-> r.w.net, slept |-> r.w.slept,
     res |-> r.res, raised |-> r.raised]

NoOp ==
    [op |-> "none", endpoint |-> "", use_cache |-> FALSE,
     before |-> [cache |-> EmptyCache, last_request_time |-> 0, now |-> StartTime,
                 last_issue |-> -1, pa |-> NoObject, fa |-> NoObject],
     after_clear |-> [cleared |-> FALSE, cache |-> EmptyCache],
     net |-> <<>>, slept |-> 0, res |-> None, raised |-> "none"]

\* The client's fields and the clock after an operation that ended in w.
Commit(w) ==
    /\ now' = w.now
    /\ cache' = w.cache
    /\ last_request_time' = w.last_request_time
    /\ last_issue' = IF w.net = <<>> THEN last_issue ELSE w.net[Len(w.net)].at
    /\ UNCHANGED cache_duration

\* A client just constructed with the given cache_duration, and no analyzer.
InitWith(duration) ==
    /\ now = StartTime
    /\ cache = EmptyCache
    /\ cache_duration = duration
    /\ last_request_time = 0
    /\ last_issue = -1
    /\ pa = NoObject
    /\ fa = NoObject
    /\ pc = "idle"
    /\ session = <<>>
    /\ reports = {}
    /\ lastOp = NoOp

\* Time passes between two operations.
Tick(limit) ==
    /\ now < limit
    /\ now' = now + 1
    /\ UNCHANGED <<cache, cache_duration, last_request_time, last_issue, pa, fa, pc,
                   session, reports, lastOp>>

\* A caller's fetch of one endpoint through the client's public method.
Fetch(op, endpoint, r, use_cache) ==
    /\ r.w.now <= ClientMaxTime
    /\ Commit(r.w)
    /\ lastOp' = OpRecord(op, endpoint, use_cache, r)
    /\ UNCHANGED <<pa, fa, pc, session, reports>>

CallGetBootstrapStatic ==
    \E use_cache \in BOOLEAN :
        \E inp \in InputsFor(World, BOOTSTRAP, use_cache) :
            \E r \in {GetBootstrapStatic(World, use_cache, inp)} : Fetch("get_bootstrap_static", BOOTSTRAP, r, use_cache)

CallGetFixtures ==
    \E use_cache \in BOOLEAN :
        \E inp \in InputsFor(World, FIXTURES, use_cache) :
            \E r \in {GetFixtures(World, use_cache, inp)} : Fetch("get_fixtures", FIXTURES, r, use_cache)

CallGetPlayerSummary ==
    \E use_cache \in BOOLEAN :
        \E inp \in InputsFor(World, SUMMARY, use_cache) :
            \E r \in {GetPlayerSummary(World, 1, use_cache, inp)} : Fetch("get_player_summary", SUMMARY, r, use_cache)

CallGetLiveGameweek ==
    \E use_cache \in BOOLEAN :
        \E inp \in InputsFor(World, LIVE, use_cache) :
            \E r \in {GetLiveGameweek(World, use_cache, inp)} : Fetch("get_live_gameweek", LIVE, r, use_cache)

CallClearCache ==
    LET w == ClearCache(World)
    IN /\ Commit(w)
       /\ lastOp' = OpRecord("clear_cache", "", FALSE, [w |-> w, res |-> None, raised |-> "none"])
       /\ UNCHANGED <<pa, fa, pc, session, reports>>

CallGetCacheInfo ==
    /\ lastOp' = OpRecord("get_cache_info", "", FALSE,
                          [w |-> World, res |-> GetCacheInfo(World), raised |-> "none"])
    /\ UNCHANGED <<now, cache, cache_duration, last_request_time, last_issue, pa, fa, pc,
                   session, reports>>

ClientTick == Tick(ClientMaxTime)

ClientInit == InitWith(ClientCacheDuration)

ClientNext ==
    \/ ClientTick
    \/ CallGetBootstrapStatic
    \/ CallGetFixtures
    \/ CallGetPlayerSummary
    \/ CallGetLiveGameweek
    \/ CallClearCache
    \/ CallGetCacheInfo

\* The client alone, called by a single caller.
ClientSpec == ClientInit /\ [][ClientNext]_vars

IsFetchOp(o) ==
    o.op \in {"get_bootstrap_static", "get_fixtures", "get_player_summary", "get_live_gameweek"}

TTL == cache_duration * TicksPerSecond

Interval == min_request_interval * TicksPerSecond

----------------------------------------------------------------------------
(* The client's lookups by id, called by a single caller.                  *)

LookupRecord(op, args, r) ==
    [op |-> op, args |-> args, before |-> Before, net |-> r.w.net, slept |-> r.w.slept,
     res |-> r.res, raised |-> r.raised]

Lookup(op, args, r) ==
    /\ r.w.now <= ClientMaxTime
    /\ Commit(r.w)
    /\ lastOp' = LookupRecord(op, args, r)
    /\ UNCHANGED <<pa, fa, pc, session, reports>>

\* The ids a caller looks up: ids the server's data has, and 9, which it
\* never has.
LookupIds == {1, 3, 9}

CallGetFixture ==
    \E fixture_id \in LookupIds, use_cache \in BOOLEAN :
        \E inp \in InputsFor(World, FIXTURES, use_cache) :
            \E r \in {GetFixture(World, fixture_id, use_cache, inp)} :
                Lookup("get_fixture", <<fixture_id, use_cache>>, r)

CallGetPlayerById ==
    \E player_id \in LookupIds :
        \E inp \in InputsFor(World, BOOTSTRAP, TRUE) :
            \E r \in {GetPlayerById(World, player_id, inp)} :
                Lookup("get_player_by_id", <<player_id>>, r)

CallGetTeamById ==
    \E team_id \in LookupIds :
        \E inp \in InputsFor(World, BOOTSTRAP, TRUE) :
            \E r \in {GetTeamById(World, team_id, inp)} :
                Lookup("get_team_by_id", <<team_id>>, r)

CallGetNextGameweek ==
    \E inp \in InputsFor(World, BOOTSTRAP, TRUE) :
        \E r \in {GetNextGameweek(World, inp)} : Lookup("get_next_gameweek", <<>>, r)

LookupNext ==
    \/ ClientTick
    \/ CallGetFixture
    \/ CallGetPlayerById
    \/ CallGetTeamById
    \/ CallGetNextGameweek

LookupSpec == ClientInit /\ [][LookupNext]_vars

----------------------------------------------------------------------------
(* A transfer advisor, its two analyzers and their client.  pa and fa are   *)
(* the advisor's player_analyzer and fixture_analyzer.                     *)

AnalyzerRecord(op, args, r) ==
    [op |-> op, args |-> args, before |-> Before, net |-> r.w.net, slept |-> r.w.slept,
     res |-> r.res, raised |-> r.raised]

AnalyzerOp(op, args, r, player_analyzer, fixture_analyzer) ==
    /\ Commit(r.w)
    /\ pa' = player_analyzer
    /\ fa' = fixture_analyzer
    /\ lastOp' = AnalyzerRecord(op, args, r)
    /\ UNCHANGED <<pc, session, reports>>

PlayerIdArgs == {1, 9}

BudgetArgs == {PyFloat(0), PyFloat(60)}

ConstructTransferAdvisor ==
    /\ now <= AnalyzerMaxTime
    /\ pa.kind = "None"
    /\ \E inps \in AdvisorInitInputs(World) :
           \E r \in TransferAdvisorInit(World, inps) :
               AnalyzerOp("TransferAdvisor", <<>>, r, r.player_analyzer, r.fixture_analyzer)

CallPlayerAnalyzerRefreshData ==
    /\ now <= AnalyzerMaxTime
    /\ pa.kind # "None"
    /\ \E inp \in LoadInputsFor(ClearCache(World), BOOTSTRAP) :
           \E r \in PlayerAnalyzerRefreshData(pa, World, inp) :
               AnalyzerOp("PlayerAnalyzer.refresh_data", <<>>, r, r.self, fa)

CallFixtureAnalyzerRefreshData ==
    /\ now <= AnalyzerMaxTime
    /\ fa.kind # "None"
    /\ \E inps \in FixtureLoadInputs(ClearCache(World)) :
           \E r \in FixtureAnalyzerRefreshData(fa, World, inps) :
               AnalyzerOp("FixtureAnalyzer.refresh_data", <<>>, r, pa, r.self)

CallTransferAdvisorRefreshData ==
    /\ now <= AnalyzerMaxTime
    /\ pa.kind # "None"
    /\ \E inps \in AdvisorRefreshInputs(World) :
           \E r \in TransferAdvisorRefreshData(pa, fa, World, inps) :
               AnalyzerOp("TransferAdvisor.refresh_data", <<>>, r,
                          r.player_analyzer, r.fixture_analyzer)

CallGetPlayerDetails ==
    /\ now <= AnalyzerMaxTime
    /\ pa.kind # "None"
    /\ \E player_id \in PlayerIdArgs :
           \E inp \in PlayerDetailsInputs(pa, World, player_id) :
               \E r \in {GetPlayerDetails(pa, World, player_id, inp)} :
                   AnalyzerOp("get_player_details", <<player_id>>, r, pa, fa)

CallSuggestTransfers ==
    /\ now <= AnalyzerMaxTime
    /\ pa.kind # "None"
    /\ \E player_out_id \in PlayerIdArgs, budget \in BudgetArgs, same_position \in BOOLEAN :
           \E inp \in PlayerDetailsInputs(pa, World, player_out_id) :
               \E r \in SuggestTransfers(pa, fa, World, player_out_id, budget,
                                         same_position, inp) :
                   AnalyzerOp("suggest_transfers", <<player_out_id, budget, same_position>>,
                              r, pa, fa)

CallGetFixtureTicker ==
    /\ now <= AnalyzerMaxTime
    /\ fa.kind # "None"
    /\ \E n_gameweeks \in {1, 5} :
           \E inp \in LoadInputsFor(World, BOOTSTRAP) :
               \E r \in GetFixtureTicker(fa, World, n_gameweeks, inp) :
                   AnalyzerOp("get_fixture_ticker", <<n_gameweeks>>, r, pa, fa)

CallAnalyzeChipStrategy ==
    /\ now <= AnalyzerMaxTime
    /\ fa.kind # "None"
    /\ \E inp \in LoadInputsFor(World, BOOTSTRAP) :
           \E r \in AnalyzeChipStrategy(fa, World, inp) :
               AnalyzerOp("analyze_chip_strategy", <<>>, r, pa, fa)

AnalyzerTick == Tick(AnalyzerMaxTime)

AnalyzerInit == InitWith(AnalyzerCacheDuration)

AnalyzerNext ==
    \/ AnalyzerTick
    \/ ConstructTransferAdvisor
    \/ CallPlayerAnalyzerRefreshData
    \/ CallFixtureAnalyzerRefreshData
    \/ CallTransferAdvisorRefreshData
    \/ CallGetPlayerDetails
    \/ CallSuggestTransfers
    \/ CallGetFixtureTicker
    \/ CallAnalyzeChipStrategy

AnalyzerSpec == AnalyzerInit /\ [][AnalyzerNext]_vars

----------------------------------------------------------------------------
(* The report pipeline: the main block of generate_reports.py runs the four *)
(* reports in sequence, and an error a report raises ends the run.  pc is  *)
(* the report to run next.                                                 *)

ReportStep(op, r, next) ==
    /\ now' = r.w.now
    /\ session' = session \o r.w.net
    /\ reports' = IF r.raised = "none" THEN reports \cup {r.res} ELSE reports
    /\ pc' = IF r.raised = "none" THEN next ELSE "aborted"
    /\ lastOp' = AnalyzerRecord(op, <<>>, r)
    /\ UNCHANGED <<cache, cache_duration, last_request_time, last_issue, pa, fa>>

RunGenerateDashboard ==
    /\ pc = "idle"
    /\ ReportStep("generate_dashboard", GenerateDashboard(now, cache_duration),
                  "generate_player_report")

RunGeneratePlayerReport ==
    /\ pc = "generate_player_report"
    /\ now <= PipelineMaxTime
    /\ \E inp \in LoadInputsFor(NewClient(now, cache_duration), BOOTSTRAP) :
           \E r \in GeneratePlayerReport(now, cache_duration, inp) :
               ReportStep("generate_player_report", r, "generate_fixture_report")

RunGenerateFixtureReport ==
    /\ pc = "generate_fixture_report"
    /\ now <= PipelineMaxTime
    /\ \E inps \in FixtureReportInputs(now, cache_duration) :
           \E r \in GenerateFixtureReport(now, cache_duration, inps) :
               ReportStep("generate_fixture_report", r, "generate_transfer_report")

RunGenerateTransferReport ==
    /\ pc = "generate_transfer_report"
    /\ now <= PipelineMaxTime
    /\ \E inps \in TransferReportInputs(now, cache_duration) :
           \E r \in GenerateTransferReport(now, cache_duration, inps) :
               ReportStep("generate_transfer_report", r, "done")

PipelineTick ==
    /\ pc \notin {"done", "aborted"}
    /\ Tick(PipelineMaxTime)

PipelineInit == InitWith(PipelineCacheDuration)

PipelineNext ==
    \/ PipelineTick
    \/ RunGenerateDashboard
    \/ RunGeneratePlayerReport
    \/ RunGenerateFixtureReport
    \/ RunGenerateTransferReport

PipelineSpec == PipelineInit /\ [][PipelineNext]_vars

----------------------------------------------------------------------------
(* The scoring functions on loaded tables.  The tables are those the       *)
(* analyzers build from a bootstrap document and a list of fixtures; no    *)
(* scoring function changes them.                                          *)

\* The (home, away) difficulties a fixture can carry.
DifficultyPairs == {<<2, 5>>, <<3, 4>>}

\* The (home, away) sides a fixture can have.
Sides == {s \in TeamIds \X TeamIds : s[1] # s[2]}

FixtureChoices(id) ==
    {Fixture(id, gw, s[1], s[2], d[1], d[2], fin) :
        gw \in 1..MaxGameweek, s \in Sides, d \in DifficultyPairs, fin \in BOOLEAN}

\* The non-empty fixture lists of the server, fixture k having id k.
FixtureLists ==
    LET RECURSIVE Lists(_)
        Lists(k) == IF k = 0 THEN {<<>>}
                    ELSE {Append(l, f) : l \in Lists(k - 1), f \in FixtureChoices(k)}
    IN UNION {Lists(k) : k \in 1..MaxFixtures}

\* The analyzers a transfer advisor holds once constructed on the documents.
LoadedPlayerAnalyzer(data) == PlayerTables(NewPlayerAnalyzer, data)

LoadedFixtureAnalyzer(items, data) ==
    [kind |-> "FixtureAnalyzer",
     fixtures_df |-> JoinTeamNames(DataFrame(items), DataFrame(data.teams)),
     teams_df |-> DataFrame(data.teams)]

ScoringInit ==
    /\ now = StartTime
    /\ cache = EmptyCache
    /\ cache_duration = ClientCacheDuration
    /\ last_request_time = 0
    /\ last_issue = -1
    /\ \E data \in {BootstrapA, BootstrapB} :
           /\ pa = LoadedPlayerAnalyzer(data)
           /\ \E items \in FixtureLists : fa = LoadedFixtureAnalyzer(items, data)
    /\ pc = "idle"
    /\ session = <<>>
    /\ reports = {}
    /\ lastOp = NoOp

ScoreRecord(op, args, outcome) ==
    [op |-> op, args |-> args, res |-> outcome.res, raised |-> outcome.raised]

\* One call of a scoring function by a caller that holds the tables.
Scored(op, args, outcome) ==
    /\ pc' = "returned"
    /\ lastOp' = ScoreRecord(op, args, outcome)
    /\ UNCHANGED <<now, cache, cache_duration, last_request_time, last_issue, pa, fa,
                   session, reports>>

\* The team names a caller passes: the full names of the teams table, and a
\* part of a name.
TeamNameArgs == {Teams[i].name : i \in DOMAIN Teams} \cup {<<"F","u","l">>}

CountArgs == {1, 5}

CallGetUpcomingFixtures ==
    /\ pc = "idle"
    /\ pa.kind # "None"
    /\ \E team_name \in TeamNameArgs, n \in CountArgs :
        \E outcome \in GetUpcomingFixtures(fa, team_name, n) :
            Scored("get_upcoming_fixtures", <<team_name, n>>, outcome)

CallGetFixtureDifficulty ==
    /\ pc = "idle"
    /\ pa.kind # "None"
    /\ \E team_name \in TeamNameArgs, n \in CountArgs :
        \E outcome \in GetFixtureDifficulty(fa, team_name, n) :
            Scored("get_fixture_difficulty", <<team_name, n>>, outcome)

CallGetBestFixtures ==
    /\ pc = "idle"
    /\ pa.kind # "None"
    /\ \E n_gameweeks \in CountArgs :
        \E outcome \in GetBestFixtures(fa, n_gameweeks) :
            Scored("get_best_fixtures", <<n_gameweeks>>, outcome)

CallGetWorstFixtures ==
    /\ pc = "idle"
    /\ pa.kind # "None"
    /\ \E n_gameweeks \in CountArgs :
        \E outcome \in GetWorstFixtures(fa, n_gameweeks) :
            Scored("get_worst_fixtures", <<n_gameweeks>>, outcome)

PositionArgs == {None, PyStr(<<"m","i","d">>)}

MaxPriceArgs == {None, PyFloat(0), PyFloat(60)}

CallGetTransferTargets ==
    /\ pc = "idle"
    /\ pa.kind # "None"
    /\ \E position \in PositionArgs, max_price \in MaxPriceArgs, n \in {1, 10} :
        \E outcome \in GetTransferTargets(pa, fa, position, max_price, n) :
            Scored("get_transfer_targets", <<position, max_price, n>>, outcome)

CallAssessWildcard ==
    /\ pc = "idle"
    /\ pa.kind # "None"
    /\ \E outcome \in AssessWildcard(fa) : Scored("_assess_wildcard", <<>>, outcome)

ScoringNext ==
    \/ CallGetUpcomingFixtures
    \/ CallGetFixtureDifficulty
    \/ CallGetBestFixtures
    \/ CallGetWorstFixtures
    \/ CallGetTransferTargets
    \/ CallAssessWildcard

ScoringSpec == ScoringInit /\ [][ScoringNext]_vars

----------------------------------------------------------------------------
(* The scoring functions on the player table of any payload: a transfer    *)
(* advisor is constructed on a bootstrap document whose second player the  *)
(* server chooses, and a caller then calls one scoring function.           *)

PlayerCostChoices == {0, 45, 70}

PlayerPointsChoices == {0, 20, 60}

PlayerOwnershipChoices == {50, 100, 160}

\* The bootstrap documents of the server: Iwobi of Fulham, and a Spurs player.
PlayerPayloads ==
    {Bootstrap(<< Player(1, "Iwobi", 1, 3, 70, 60, 55, 200, 50, "a"),
                  Player(2, "Porro", 3, etype, cost, points, 30, own, 20, status) >>,
               EventsCurrent) :
        etype \in {2, 3}, cost \in PlayerCostChoices, points \in PlayerPointsChoices,
        own \in PlayerOwnershipChoices, status \in {"a", "i"}}

\* TransferAdvisor() when the server answers with the document and FixturesA.
ConstructOnPayload ==
    /\ pc = "idle"
    /\ pa.kind = "None"
    /\ \E data \in PlayerPayloads :
           \E r \in TransferAdvisorInit(World, << [resp |-> data, dur |-> 0, over |-> 0],
                                                  [resp |-> Ref("FixturesA"), dur |-> 0,
                                                   over |-> 0],
                                                  [resp |-> data, dur |-> 0, over |-> 0] >>) :
               AnalyzerOp("TransferAdvisor", <<>>, r, r.player_analyzer, r.fixture_analyzer)

CallGetBestValuePlayers ==
    /\ pc = "idle"
    /\ pa.kind # "None"
    /\ \E n \in {1, 10}, position \in PositionArgs, max_price \in MaxPriceArgs :
        \E outcome \in GetBestValuePlayers(pa, n, position, max_price) :
            Scored("get_best_value_players", <<n, position, max_price>>, outcome)

CallGetBudgetOptions ==
    /\ pc = "idle"
    /\ pa.kind # "None"
    /\ \E position \in PositionArgs \ {None}, max_price \in MaxPriceArgs \ {None} :
        \E outcome \in GetBudgetOptions(pa, fa, position, max_price, 5) :
            Scored("get_budget_options", <<position, max_price, 5>>, outcome)

\* max_ownership, in tenths of a percent: the default 5.0, and 10.0.
MaxOwnershipArgs == {50, 100}

\* min_points: the default 20, and 0.
MinPointsArgs == {0, 20}

CallGetDifferentialPicks ==
    /\ pc = "idle"
    /\ pa.kind # "None"
    /\ \E n \in {1, 10}, max_ownership \in MaxOwnershipArgs, min_points \in MinPointsArgs :
        \E outcome \in GetDifferentialPicks(pa, n, max_ownership, min_points) :
            Scored("get_differential_picks", <<n, max_ownership, min_points>>, outcome)

CallGetTransferOutCandidates ==
    /\ pc = "idle"
    /\ pa.kind # "None"
    /\ \E n \in {1, 10} :
        \E outcome \in GetTransferOutCandidates(pa, fa, n) :
            Scored("get_transfer_out_candidates", <<n>>, outcome)

CallGetCaptaincyPicks ==
    /\ pc = "idle"
    /\ pa.kind # "None"
    /\ \E n \in {1, 5} :
        \E outcome \in GetCaptaincyPicks(pa, fa, n) :
            Scored("get_captaincy_picks", <<n>>, outcome)

PlayerInit == InitWith(PipelineCacheDuration)

PlayerNext ==
    \/ ConstructOnPayload
    \/ CallGetBestValuePlayers
    \/ CallGetTransferTargets
    \/ CallGetBudgetOptions
    \/ CallGetDifferentialPicks
    \/ CallGetTransferOutCandidates
    \/ CallGetCaptaincyPicks

PlayerSpec == PlayerInit /\ [][PlayerNext]_vars

----------------------------------------------------------------------------
(* The gameweek functions on the fixture table of any fixture list of up   *)
(* to three fixtures, some of them with no gameweek assigned yet.          *)

MaxGameweekFixtures == 3

GameweekSides == {<<1, 2>>, <<2, 1>>, <<1, 3>>, <<3, 2>>}

\* The fixtures of the server: an event the payload gives as null is read
\* into the table as nan.
GameweekFixtureChoices(id) ==
    {Fixture(id, gw, s[1], s[2], 2, 3, fin) :
        gw \in (1..MaxGameweek) \cup {NotANumber}, s \in GameweekSides, fin \in BOOLEAN}

GameweekFixtureLists ==
    LET RECURSIVE Lists(_)
        Lists(k) == IF k = 0 THEN {<<>>}
                    ELSE {Append(l, f) : l \in Lists(k - 1), f \in GameweekFixtureChoices(k)}
    IN UNION {Lists(k) : k \in 1..MaxGameweekFixtures}

GameweekInit ==
    /\ now = StartTime
    /\ cache = EmptyCache
    /\ cache_duration = ClientCacheDuration
    /\ last_request_time = 0
    /\ last_issue = -1
    /\ pa = LoadedPlayerAnalyzer(BootstrapA)
    /\ \E items \in GameweekFixtureLists : fa = LoadedFixtureAnalyzer(items, BootstrapA)
    /\ pc = "idle"
    /\ session = <<>>
    /\ reports = {}
    /\ lastOp = NoOp

CallGetDoubleGameweeks ==
    /\ pc = "idle"
    /\ \E outcome \in GetDoubleGameweeks(fa) : Scored("get_double_gameweeks", <<>>, outcome)

CallGetBlankGameweeks ==
    /\ pc = "idle"
    /\ \E outcome \in GetBlankGameweeks(fa) : Scored("get_blank_gameweeks", <<>>, outcome)

GameweekNext == CallGetDoubleGameweeks \/ CallGetBlankGameweeks

GameweekSpec == GameweekInit /\ [][GameweekNext]_vars

----------------------------------------------------------------------------
(* C1: after a successful cached fetch of an endpoint, a further fetch of  *)
(* it with use_cache=True less than cache_duration seconds later returns   *)
(* the identical payload and makes no network call, whatever the payload.  *)
C1_CachedFetchWithinTTL ==
    ( /\ IsFetchOp(lastOp)
      /\ lastOp.use_cache
      /\ lastOp.endpoint \in DOMAIN lastOp.before.cache
      /\ lastOp.before.now - lastOp.before.cache[lastOp.endpoint][2] < TTL )
    => /\ lastOp.net = <<>>
       /\ lastOp.res = lastOp.before.cache[lastOp.endpoint][1]

(* C2: two consecutive network calls of one client are issued at least     *)
(* min_request_interval apart, the client sleeping the remaining delta     *)
(* before a call; a cache hit sleeps nothing and leaves last_request_time. *)
C2_RateLimitSpacing ==
    /\ \A i \in DOMAIN lastOp.net :
          LET prev == IF i = 1 THEN lastOp.before.last_issue ELSE lastOp.net[i - 1].at
          IN prev >= 0 => lastOp.net[i].at - prev >= Interval
    /\ (IsFetchOp(lastOp) /\ lastOp.net # <<>>) =>
          LET remaining == Interval - (lastOp.before.now - lastOp.before.last_request_time)
          IN /\ lastOp.slept >= remaining
             /\ remaining <= 0 => lastOp.slept = 0
             /\ last_request_time = lastOp.before.now + lastOp.slept
    /\ (IsFetchOp(lastOp) /\ lastOp.net = <<>>) =>
          /\ lastOp.slept = 0
          /\ last_request_time = lastOp.before.last_request_time

C2_Witness ==
    /\ IsFetchOp(lastOp)
    /\ Len(lastOp.net) = 1
    /\ lastOp.before.last_issue >= 0
    /\ lastOp.slept > 0
    /\ lastOp.endpoint \in DOMAIN lastOp.before.cache

(* C3: a failed HTTP GET raises the generic fetch-failure error carrying   *)
(* the cause after exactly one network attempt, and leaves the cache as it *)
(* was before the call.                                                    *)
C3_FailureRaisesOnceCacheUntouched ==
    ( /\ IsFetchOp(lastOp)
      /\ lastOp.net # <<>>
      /\ IsFailure(lastOp.net[1].resp) )
    => /\ lastOp.raised = "Exception"
       /\ lastOp.res = FetchFailed(lastOp.net[1].resp)
       /\ Len(lastOp.net) = 1
       /\ cache = lastOp.before.cache

C3_Witness ==
    /\ IsFetchOp(lastOp)
    /\ lastOp.raised = "Exception"
    /\ lastOp.res.cause = "status"
    /\ lastOp.endpoint \in DOMAIN lastOp.before.cache
    /\ cache = lastOp.before.cache

(* C4: after clear_cache() the cache holds no entries, get_cache_info      *)
(* reports 0 cached endpoints, and the next fetch of any endpoint makes a  *)
(* network call even if the endpoint was fetched less than cache_duration  *)
(* earlier.                                                                *)
C4_ClearCacheForcesNetwork ==
    /\ lastOp.op = "clear_cache" => DOMAIN cache = {}
    /\ (lastOp.op = "get_cache_info" /\ lastOp.after_clear.cleared) =>
          lastOp.res.cached_endpoints = 0
    /\ (IsFetchOp(lastOp) /\ lastOp.after_clear.cleared) =>
          /\ Len(lastOp.net) = 1
          /\ lastOp.net[1].endpoint = lastOp.endpoint

C4_Witness ==
    /\ IsFetchOp(lastOp)
    /\ lastOp.use_cache
    /\ lastOp.after_clear.cleared
    /\ lastOp.endpoint \in DOMAIN lastOp.after_clear.cache
    /\ Truthy(lastOp.after_clear.cache[lastOp.endpoint][1])
    /\ lastOp.before.now - lastOp.after_clear.cache[lastOp.endpoint][2] < TTL
    /\ Len(lastOp.net) = 1

----------------------------------------------------------------------------
(* Claims on the analyzers, the report pipeline and the scoring functions. *)

\* The i-th network call of the last operation fetched the endpoint, got a
\* payload, and was issued after the operation began.
FetchedInOp(i, endpoint) ==
    /\ lastOp.net[i].endpoint = endpoint
    /\ ~IsFailure(lastOp.net[i].resp)
    /\ lastOp.net[i].at >= lastOp.before.now

\* The payload the i-th network call of the last operation received.
Fetched(i) == Doc(lastOp.net[i].resp)

(* C5: after a refresh_data() that returns successfully, every table of    *)
(* the analyzer is rebuilt in full from payloads fetched over the network  *)
(* after the refresh call began; nothing comes from a cache entry or a     *)
(* table that existed before the refresh.                                  *)
C5_RefreshRebuildsFromNetwork ==
    /\ (lastOp.op = "PlayerAnalyzer.refresh_data" /\ lastOp.raised = "none") =>
          /\ Len(lastOp.net) = 1
          /\ FetchedInOp(1, BOOTSTRAP)
          /\ pa = LoadedPlayerAnalyzer(Fetched(1))
    /\ (lastOp.op = "FixtureAnalyzer.refresh_data" /\ lastOp.raised = "none") =>
          /\ Len(lastOp.net) = 2
          /\ FetchedInOp(1, FIXTURES)
          /\ FetchedInOp(2, BOOTSTRAP)
          /\ fa = LoadedFixtureAnalyzer(Fetched(1).items, Fetched(2))
    /\ (lastOp.op = "TransferAdvisor.refresh_data" /\ lastOp.raised = "none") =>
          /\ Len(lastOp.net) = 3
          /\ FetchedInOp(1, BOOTSTRAP)
          /\ FetchedInOp(2, FIXTURES)
          /\ FetchedInOp(3, BOOTSTRAP)
          /\ pa = LoadedPlayerAnalyzer(Fetched(1))
          /\ fa = LoadedFixtureAnalyzer(Fetched(2).items, Fetched(3))

\* A fixture analyzer refreshed while the cache held fresh entries of both
\* endpoints it reads, and its tables changed.
C5_Witness ==
    /\ lastOp.op = "FixtureAnalyzer.refresh_data"
    /\ lastOp.raised = "none"
    /\ \A e \in {FIXTURES, BOOTSTRAP} :
          /\ e \in DOMAIN lastOp.before.cache
          /\ Truthy(lastOp.before.cache[e][1])
          /\ lastOp.before.now - lastOp.before.cache[e][2] < TTL
    /\ fa # lastOp.before.fa
    /\ Fetched(1) # Doc(lastOp.before.cache[FIXTURES][1])

(* C6: in one run of the report pipeline within the cache TTL, the         *)
(* bootstrap-static endpoint and the fixtures endpoint are each requested  *)
(* over the network at most once.                                          *)
C6_FetchedOncePerSession ==
    (pc = "done" /\ now - StartTime < TTL) =>
        \A e \in {BOOTSTRAP, FIXTURES} :
            Cardinality({i \in DOMAIN session : session[i].endpoint = e}) <= 1

\* The last operation built or refreshed tables and one of its fetches
\* failed.
LoadFailed ==
    /\ lastOp.op \in {"TransferAdvisor", "PlayerAnalyzer.refresh_data",
                      "FixtureAnalyzer.refresh_data", "TransferAdvisor.refresh_data"}
    /\ \E i \in DOMAIN lastOp.net : IsFailure(lastOp.net[i].resp)

(* C7: a fetch that fails while an analyzer is constructed or refreshed    *)
(* never leaves the analyzer with partially updated tables: a failed       *)
(* constructor leaves no analyzer, and after a failed refresh the tables   *)
(* of the analyzer whose fetch failed are exactly those before the         *)
(* refresh.                                                                *)
C7_NoPartialFailureState ==
    LoadFailed =>
        /\ lastOp.op = "TransferAdvisor" => (pa = NoObject /\ fa = NoObject)
        /\ lastOp.op = "PlayerAnalyzer.refresh_data" => pa = lastOp.before.pa
        /\ lastOp.op \in {"FixtureAnalyzer.refresh_data", "TransferAdvisor.refresh_data"} =>
              /\ fa = lastOp.before.fa
              /\ pa = lastOp.before.pa \/ pa = LoadedPlayerAnalyzer(Fetched(1))

(* C8: a fetch-failed error raised by the client during any analyzer or    *)
(* advisor operation propagates to the caller of that operation; no        *)
(* operation catches it and returns a normal result.                       *)
C8_FetchFailurePropagates ==
    (lastOp.op # "none" /\ \E i \in DOMAIN lastOp.net : IsFailure(lastOp.net[i].resp)) =>
        /\ lastOp.raised = "Exception"
        /\ IsFetchFailed(lastOp.res)

\* The team of the teams table a caller named in full.
NamedTeam(team_name) ==
    LET rows == fa.teams_df.rows
    IN rows[CHOOSE i \in DOMAIN rows : rows[i].name = team_name]

IsFullName(team_name) == \E i \in DOMAIN fa.teams_df.rows : fa.teams_df.rows[i].name = team_name

\* The unfinished fixtures the team plays, on either side.
UpcomingOf(team) ==
    Where(fa.fixtures_df, LAMBDA row : /\ row.finished = FALSE
                                       /\ (row.team_h = team.id \/ row.team_a = team.id))

\* The analyses of the team's next n fixtures from its own side, one for
\* each order of its fixtures by gameweek.
OwnSideAnalyses(team, n) ==
    LET Entry(row) ==
            IF row.team_h = team.id
            THEN [gameweek |-> row.event, opponent |-> row.away_short, venue |-> "H",
                  difficulty |-> row.team_h_difficulty]
            ELSE [gameweek |-> row.event, opponent |-> row.home_short, venue |-> "A",
                  difficulty |-> row.team_a_difficulty]
    IN { LET rows == FrameHead(sorted, n).rows
             list == [i \in DOMAIN rows |-> Entry(rows[i])]
         IN [avg_difficulty |->
                 RoundDiv(Sum([i \in DOMAIN list |-> list[i].difficulty]) * 100, Len(list)),
             fixtures |-> list] :
            sorted \in SortValues(UpcomingOf(team), LAMBDA row : row.event, TRUE) }

(* C9: for a team of the teams table with upcoming fixtures,               *)
(* get_fixture_difficulty(team name, n) returns the mean, rounded to 2     *)
(* decimals, over the team's next n unfinished fixtures of the difficulty  *)
(* from the team's own side: team_h_difficulty, venue 'H' and the away     *)
(* side as opponent when it is the home side, team_a_difficulty, venue 'A' *)
(* and the home side as opponent when it is the away side.                 *)
C9_DifficultyFromOwnSide ==
    ( /\ lastOp.op = "get_fixture_difficulty"
      /\ lastOp.raised = "none"
      /\ IsFullName(lastOp.args[1])
      /\ UpcomingOf(NamedTeam(lastOp.args[1])).rows # <<>> )
    => \E own \in OwnSideAnalyses(NamedTeam(lastOp.args[1]), lastOp.args[2]) :
           /\ lastOp.res.avg_difficulty = own.avg_difficulty
           /\ lastOp.res.fixtures = own.fixtures

\* The team of that full name has no unfinished fixture.
NoUpcoming(team_name) == UpcomingOf(NamedTeam(team_name)).rows = <<>>

(* C10: a team with no upcoming fixtures gets avg_difficulty 0 and an      *)
(* empty fixture list from get_fixture_difficulty, and callers treat that  *)
(* as no data: get_best_fixtures never ranks such a team ahead of a team   *)
(* that has upcoming fixtures, and get_transfer_targets does not give its  *)
(* players the fixture score of a difficulty-0 schedule.                   *)
C10_NoFixturesIsNoData ==
    /\ ( /\ lastOp.op = "get_fixture_difficulty"
         /\ lastOp.raised = "none"
         /\ IsFullName(lastOp.args[1])
         /\ NoUpcoming(lastOp.args[1]) )
       => (lastOp.res.avg_difficulty = 0 /\ lastOp.res.fixtures = <<>>)
    /\ (lastOp.op = "get_best_fixtures" /\ lastOp.raised = "none") =>
          LET rows == lastOp.res.rows
          IN \A i, j \in DOMAIN rows :
                 i < j => ~(NoUpcoming(rows[i].team_name) /\ ~NoUpcoming(rows[j].team_name))
    /\ (lastOp.op = "get_transfer_targets" /\ lastOp.raised = "none") =>
          LET rows == lastOp.res.rows
          IN \A i \in DOMAIN rows :
                 NoUpcoming(rows[i].team_name) =>
                     rows[i].transfer_score
                         # TransferScore(rows[i].form, rows[i].points_per_million, 500)

\* The rows of a table the last call returned.
ReturnedRows == IF lastOp.raised = "none" THEN lastOp.res.rows ELSE <<>>

(* C11: for every scoring function with a max-price filter and every       *)
(* numeric max_price the caller supplies, every returned row has value     *)
(* <= max_price.                                                           *)
C11_RowsWithinMaxPrice ==
    /\ (lastOp.op = "get_best_value_players" /\ lastOp.args[3].kind = "float") =>
          \A i \in DOMAIN ReturnedRows : ReturnedRows[i].value <= lastOp.args[3].value
    /\ (lastOp.op \in {"get_transfer_targets", "get_budget_options"}
          /\ lastOp.args[2].kind = "float") =>
          \A i \in DOMAIN ReturnedRows : ReturnedRows[i].value <= lastOp.args[2].value

(* C12: every row get_differential_picks returns has ownership <=          *)
(* max_ownership and total points >= min_points; every row                 *)
(* get_transfer_out_candidates returns has ownership > 10; every row       *)
(* get_captaincy_picks returns has ownership > 15, and has the status       *)
(* available in the player table.                                          *)
C12_OwnershipFilters ==
    /\ lastOp.op = "get_differential_picks" =>
          \A i \in DOMAIN ReturnedRows :
              /\ ReturnedRows[i].selected_by_percent <= lastOp.args[2]
              /\ ReturnedRows[i].total_points >= lastOp.args[3]
    /\ lastOp.op = "get_transfer_out_candidates" =>
          \A i \in DOMAIN ReturnedRows : ReturnedRows[i].selected_by_percent > 100
    /\ lastOp.op = "get_captaincy_picks" =>
          \A i \in DOMAIN ReturnedRows :
              /\ ReturnedRows[i].selected_by_percent > 150
              /\ \E k \in DOMAIN pa.players_df.rows :
                     /\ pa.players_df.rows[k].web_name = ReturnedRows[i].web_name
                     /\ pa.players_df.rows[k].status = "a"

\* get_differential_picks returned a player and left out a player who is
\* available and has the points, for his ownership.
C12_Witness ==
    /\ lastOp.op = "get_differential_picks"
    /\ lastOp.args[1] = 10
    /\ ReturnedRows # <<>>
    /\ \E k \in DOMAIN pa.players_df.rows :
           /\ pa.players_df.rows[k].status = "a"
           /\ pa.players_df.rows[k].total_points >= lastOp.args[3]
           /\ pa.players_df.rows[k].selected_by_percent > lastOp.args[2]
           /\ \A i \in DOMAIN ReturnedRows :
                  ReturnedRows[i].web_name # pa.players_df.rows[k].web_name

\* The unfinished fixtures of the fixture table a team plays in a gameweek.
UnfinishedIn(team_id, gw) ==
    {i \in DOMAIN fa.fixtures_df.rows :
        /\ fa.fixtures_df.rows[i].finished = FALSE
        /\ fa.fixtures_df.rows[i].event = gw
        /\ team_id \in {fa.fixtures_df.rows[i].team_h, fa.fixtures_df.rows[i].team_a}}

\* The rows of the returned table for a gameweek and a team.
RowsFor(gw, team) ==
    {i \in DOMAIN ReturnedRows :
        ReturnedRows[i].gameweek = gw /\ ReturnedRows[i].team = team.short_name}

(* C13: get_double_gameweeks reports (G, team) if and only if the team has *)
(* more than one unfinished fixture, home plus away, in gameweek G, with   *)
(* fixtures equal to that count, and reports nothing else.                 *)
C13_DoubleGameweeks ==
    (lastOp.op = "get_double_gameweeks" /\ lastOp.raised = "none") =>
        /\ \A k \in DOMAIN Teams, gw \in 1..MaxGameweek :
               LET count == Cardinality(UnfinishedIn(Teams[k].id, gw))
               IN /\ (RowsFor(gw, Teams[k]) # {}) <=> (count > 1)
                  /\ Cardinality(RowsFor(gw, Teams[k])) <= 1
                  /\ \A i \in RowsFor(gw, Teams[k]) : ReturnedRows[i].fixtures = count
        /\ \A i \in DOMAIN ReturnedRows :
               /\ ReturnedRows[i].gameweek \in 1..MaxGameweek
               /\ \E k \in DOMAIN Teams : ReturnedRows[i].team = Teams[k].short_name

\* A team with two unfinished fixtures in one gameweek and one in another
\* is reported for the first gameweek only.
C13_Witness ==
    /\ lastOp.op = "get_double_gameweeks"
    /\ \E k \in DOMAIN Teams, gw \in 1..MaxGameweek, other \in 1..MaxGameweek :
           /\ other # gw
           /\ Cardinality(UnfinishedIn(Teams[k].id, gw)) = 2
           /\ Cardinality(UnfinishedIn(Teams[k].id, other)) = 1
           /\ RowsFor(gw, Teams[k]) # {}
           /\ RowsFor(other, Teams[k]) = {}

(* C14: get_blank_gameweeks reports (G, team) if and only if G is a        *)
(* gameweek number in which at least one unfinished fixture is scheduled   *)
(* and the team is on neither side of any unfinished fixture in G; this    *)
(* for every fixture table, also one with fixtures that have no gameweek.  *)
C14_BlankGameweeks ==
    (lastOp.op = "get_blank_gameweeks" /\ lastOp.raised = "none") =>
        /\ \A k \in DOMAIN Teams, gw \in 1..MaxGameweek :
               (RowsFor(gw, Teams[k]) # {}) <=>
                   /\ \E j \in DOMAIN Teams : UnfinishedIn(Teams[j].id, gw) # {}
                   /\ UnfinishedIn(Teams[k].id, gw) = {}
        /\ \A i \in DOMAIN ReturnedRows : ReturnedRows[i].gameweek \in 1..MaxGameweek

\* The bootstrap document a construction fetched from the network.
FetchedBootstrap == lastOp.net[1].resp

\* The quotient num / den of positive integers, rounded to the nearest
\* integer, a tie to the even one.
Nearest(num, den) ==
    CHOOSE q \in 0..num :
        /\ 2 * (q * den - num) \in (0 - den)..den
        /\ (2 * (q * den - num) \in {0 - den, den}) => q % 2 = 0

(* C15: for every player of the raw payload the player table has value =   *)
(* now_cost / 10 and, for a price above 0, points_per_million =             *)
(* total_points / value rounded to 2 decimals, with team_name the name of  *)
(* the player's team and position the name of the element_type (1..4 are   *)
(* GKP, DEF, MID, FWD); total_points 60 and now_cost 70 give 7.0 and 8.57. *)
(* value is in tenths and points_per_million in hundredths.                *)
C15_DerivedPlayerFields ==
    (lastOp.op = "TransferAdvisor" /\ lastOp.raised = "none") =>
        /\ Len(pa.players_df.rows) = Len(FetchedBootstrap.elements)
        /\ \A i \in DOMAIN FetchedBootstrap.elements :
               LET raw == FetchedBootstrap.elements[i]
                   row == pa.players_df.rows[i]
               IN /\ row.id = raw.id
                  /\ row.value = raw.now_cost
                  /\ raw.now_cost > 0 =>
                         row.points_per_million = Nearest(raw.total_points * 1000, raw.now_cost)
                  /\ (raw.total_points = 60 /\ raw.now_cost = 70) =>
                         (row.value = 70 /\ row.points_per_million = 857)
                  /\ \E k \in DOMAIN FetchedBootstrap.teams :
                         /\ FetchedBootstrap.teams[k].id = raw.team
                         /\ FetchedBootstrap.teams[k].name = row.team_name
                  /\ row.position = CASE raw.element_type = 1 -> <<"G", "K", "P">>
                                       [] raw.element_type = 2 -> <<"D", "E", "F">>
                                       [] raw.element_type = 3 -> <<"M", "I", "D">>
                                       [] raw.element_type = 4 -> <<"F", "W", "D">>

\* A table was built from a payload with the player of 60 points at 7.0
\* and a player whose quotient is rounded up (20 points at 7.0: 2.857).
C15_Witness ==
    /\ lastOp.op = "TransferAdvisor"
    /\ lastOp.raised = "none"
    /\ \E i \in DOMAIN pa.players_df.rows :
           pa.players_df.rows[i].total_points = 60 /\ pa.players_df.rows[i].now_cost = 70
    /\ \E i \in DOMAIN pa.players_df.rows :
           /\ pa.players_df.rows[i].total_points = 20
           /\ pa.players_df.rows[i].now_cost = 70
           /\ pa.players_df.rows[i].points_per_million = 286

(* C16: a player whose price is 0 appears in no output ranked or scored by *)
(* points-per-price: get_best_value_players, get_differential_picks and    *)
(* get_transfer_targets.                                                   *)
C16_ZeroPriceExcluded ==
    lastOp.op \in {"get_best_value_players", "get_differential_picks", "get_transfer_targets"} =>
        \A i \in DOMAIN ReturnedRows : ReturnedRows[i].value > 0

\* The chip-strategy call made twice in a row on unchanged tables.
RepeatedChipStrategy ==
    /\ lastOp.op = "analyze_chip_strategy"
    /\ lastOp'.op = "analyze_chip_strategy"
    /\ lastOp' # lastOp
    /\ lastOp.raised = "none"
    /\ lastOp'.raised = "none"
    /\ pa' = pa
    /\ fa' = fa

(* C17: there is no hidden state: a call of an analysis function leaves    *)
(* players_df, teams_df and fixtures_df unchanged, and a function called   *)
(* again with the same arguments on unchanged tables returns the same      *)
(* result; here the chip strategy, for the gameweek it reports.            *)
C17_NoHiddenState ==
    [][/\ lastOp'.op \in {"get_player_details", "suggest_transfers", "get_fixture_ticker",
                          "analyze_chip_strategy"} => (pa' = pa /\ fa' = fa)
       /\ RepeatedChipStrategy =>
              lastOp'.res.current_gameweek = lastOp.res.current_gameweek]_vars

\* The document of an endpoint that the last call read, when its fetch did
\* not fail: the response of the network, or else the cached document.
Held(endpoint) ==
    IF lastOp.net # <<>>
    THEN Doc(lastOp.net[Len(lastOp.net)].resp)
    ELSE Doc(lastOp.before.cache[endpoint][1])

\* The records of a list with an id.
WithId(records, id) == {records[i] : i \in {j \in DOMAIN records : records[j].id = id}}

(* C18: get_fixture returns the fixture of the fixtures list whose id is   *)
(* fixture_id when the list has one, and otherwise raises ValueError, an   *)
(* error other than the one a failed fetch raises; get_player_by_id and    *)
(* get_team_by_id return None when no record has the id.                   *)
C18_LookupById ==
    /\ (lastOp.op = "get_fixture" /\ lastOp.raised # "Exception") =>
          IF WithId(Held(FIXTURES).items, lastOp.args[1]) # {}
          THEN lastOp.raised = "none" /\ lastOp.res \in WithId(Held(FIXTURES).items, lastOp.args[1])
          ELSE /\ lastOp.raised = "ValueError"
               /\ lastOp.res.kind = "ValueError"
               /\ ~IsFetchFailed(lastOp.res)
    /\ (lastOp.op = "get_fixture" /\ lastOp.raised = "Exception") =>
          /\ IsFetchFailed(lastOp.res)
          /\ lastOp.net # <<>>
          /\ IsFailure(lastOp.net[Len(lastOp.net)].resp)
    /\ (lastOp.op = "get_player_by_id" /\ lastOp.raised = "none") =>
          IF WithId(Held(BOOTSTRAP).elements, lastOp.args[1]) = {}
          THEN lastOp.res = None
          ELSE lastOp.res \in WithId(Held(BOOTSTRAP).elements, lastOp.args[1])
    /\ (lastOp.op = "get_team_by_id" /\ lastOp.raised = "none") =>
          IF WithId(Held(BOOTSTRAP).teams, lastOp.args[1]) = {}
          THEN lastOp.res = None
          ELSE lastOp.res \in WithId(Held(BOOTSTRAP).teams, lastOp.args[1])

\* get_fixture found no fixture with the id in a list that has fixtures.
C18_Witness ==
    /\ lastOp.op = "get_fixture"
    /\ lastOp.raised = "ValueError"
    /\ Held(FIXTURES).items # <<>>

\* The last operation fetched the current gameweek from a document of the
\* server that flags no gameweek as current; no fetch of it failed, and the
\* fixtures list it fetched has fixtures.
NoGameweekIsCurrent ==
    /\ lastOp.net # <<>>
    /\ \A i \in DOMAIN lastOp.net : ~IsFailure(lastOp.net[i].resp)
    /\ \A i \in DOMAIN lastOp.net :
           IF lastOp.net[i].endpoint = BOOTSTRAP
           THEN \A k \in DOMAIN Doc(lastOp.net[i].resp).events :
                    ~Doc(lastOp.net[i].resp).events[k].is_current
           ELSE Doc(lastOp.net[i].resp).items # <<>>

(* C19: when no gameweek is flagged current, the callers of                *)
(* get_current_gameweek complete without error: generate_transfer_report,  *)
(* which calls analyze_chip_strategy, still produces the transfer report.  *)
C19_NoCurrentGameweekIsSafe ==
    (lastOp.op = "generate_transfer_report" /\ NoGameweekIsCurrent) =>
        (lastOp.raised = "none" /\ "transfers.html" \in reports)

\* The row of the player table with a web_name.
PlayerNamed(web_name) ==
    pa.players_df.rows[CHOOSE k \in DOMAIN pa.players_df.rows :
                           pa.players_df.rows[k].web_name = web_name]

\* The next unfinished fixtures of a team: those of its first gameweek.
NextFixturesOf(team_id) ==
    LET mine == {f \in {fa.fixtures_df.rows[i] : i \in DOMAIN fa.fixtures_df.rows} :
                    f.finished = FALSE /\ team_id \in {f.team_h, f.team_a}}
    IN {f \in mine : \A g \in mine : f.event <= g.event}

\* The short name of the team with an id.
ShortNameOf(team_id) ==
    Teams[CHOOSE k \in DOMAIN Teams : Teams[k].id = team_id].short_name

\* The captain_score, in hundredths, and the opponent of a player whose
\* team's next fixture is f, read from the team's own side.
OwnSideCaptaincy(player, f) ==
    LET home == f.team_h = player.team
        d == IF home THEN f.team_h_difficulty ELSE f.team_a_difficulty
    IN [captain_score |-> player.form * 50 + (5 - d) * 400 + player.points_per_game * 10,
        opponent |-> ShortNameOf(IF home THEN f.team_a ELSE f.team_h)]

(* C20: for every player get_captaincy_picks returns, captain_score =      *)
(* form * 5 + (5 - d) * 4 + points_per_game, where d is the difficulty of  *)
(* the next unfinished fixture of the player's team on the team's own      *)
(* side, and the opponent shown is the other side; a team with no next     *)
(* fixture has d = 3; the rows are in descending captain_score order.      *)
C20_CaptainScoreFromOwnSide ==
    (lastOp.op = "get_captaincy_picks" /\ lastOp.raised = "none") =>
        /\ \A i \in DOMAIN ReturnedRows :
               LET row == ReturnedRows[i]
                   player == PlayerNamed(row.web_name)
               IN IF NextFixturesOf(player.team) = {}
                  THEN row.captain_score =
                           player.form * 50 + (5 - 3) * 400 + player.points_per_game * 10
                  ELSE \E f \in NextFixturesOf(player.team) :
                           /\ row.captain_score = OwnSideCaptaincy(player, f).captain_score
                           /\ row.opponent = OwnSideCaptaincy(player, f).opponent
        /\ \A i \in DOMAIN ReturnedRows : \A j \in DOMAIN ReturnedRows :
               i < j => ReturnedRows[i].captain_score >= ReturnedRows[j].captain_score

\* The team of the teams table with an id.
TeamWithId(team_id) ==
    fa.teams_df.rows[CHOOSE k \in DOMAIN fa.teams_df.rows : fa.teams_df.rows[k].id = team_id]

\* The average difficulties, in hundredths, of the next n fixtures of a
\* player's team, read from the team's own side.
OwnSideAverages(player, n) ==
    {own.avg_difficulty : own \in OwnSideAnalyses(TeamWithId(player.team), n)}

\* The returned rows are at most n (the k-th argument of the call) and in
\* descending order of a column.
DescendingTopN(column, k) ==
    /\ Len(ReturnedRows) <= lastOp.args[k]
    /\ \A i \in DOMAIN ReturnedRows : \A j \in DOMAIN ReturnedRows :
           i < j => ReturnedRows[i][column] >= ReturnedRows[j][column]

(* C21: get_transfer_targets returns only available players with          *)
(* total_points > 20 that match the position and max-price filters, each   *)
(* with transfer_score = form * 4 + points_per_million * 0.3 + (5 - the    *)
(* average difficulty of the team's next 5 fixtures) * 3, rounded to 2     *)
(* decimals, in descending transfer_score order, at most n rows.           *)
C21_TransferTargets ==
    (lastOp.op = "get_transfer_targets" /\ lastOp.raised = "none") =>
        /\ DescendingTopN("transfer_score", 3)
        /\ \A i \in DOMAIN ReturnedRows :
               LET row == ReturnedRows[i]
                   player == PlayerNamed(row.web_name)
               IN /\ player.status = "a"
                  /\ player.total_points > 20
                  /\ lastOp.args[1].kind = "str" => player.position = Upper(lastOp.args[1].value)
                  /\ lastOp.args[2].kind = "float" => player.value <= lastOp.args[2].value
                  /\ UpcomingOf(TeamWithId(player.team)).rows # <<>> =>
                         \E avg \in OwnSideAverages(player, 5) :
                             row.transfer_score =
                                 RoundDiv(player.form * 400 + player.points_per_million * 3
                                          + (500 - avg) * 30, 10)

(* C22: get_transfer_out_candidates returns only players with ownership    *)
(* above 10%, each with sell_score = (5 - form) * 2 + (the average         *)
(* difficulty of the team's fixtures) * 2 + price * 0.5, times 1.5 exactly *)
(* when the player is not available, in descending order of the final      *)
(* sell_score, at most n rows.  sell_score is in thousandths.              *)
C22_TransferOutCandidates ==
    (lastOp.op = "get_transfer_out_candidates" /\ lastOp.raised = "none") =>
        /\ DescendingTopN("sell_score", 1)
        /\ \A i \in DOMAIN ReturnedRows :
               LET row == ReturnedRows[i]
                   player == PlayerNamed(row.web_name)
               IN /\ player.selected_by_percent > 100
                  /\ UpcomingOf(TeamWithId(player.team)).rows # <<>> =>
                         \E avg \in OwnSideAverages(player, 5) :
                             LET base == (50 - player.form) * 200 + avg * 20
                                         + player.value * 50
                             IN IF player.status = "a"
                                THEN row.sell_score = base
                                ELSE 2 * row.sell_score = 3 * base

\* The teams of the teams table that have upcoming fixtures.
TeamsWithFixtures ==
    SelectSeq(fa.teams_df.rows, LAMBDA team : UpcomingOf(team).rows # <<>>)

\* The sum over those teams of the average difficulty, in hundredths, of a
\* team's next 5 fixtures from its own side.
LeagueDifficultySum ==
    Sum([k \in DOMAIN TeamsWithFixtures |->
            CHOOSE avg \in {own.avg_difficulty : own \in OwnSideAnalyses(TeamsWithFixtures[k], 5)} :
                TRUE])

(* C23: the wildcard recommendation is 'consider' exactly when the         *)
(* league-wide average difficulty over the next 5 gameweeks is above 3.5,  *)
(* 'good time' exactly when it is below 2.5 and neutral otherwise, where   *)
(* the league-wide average is the mean of the average difficulties of the  *)
(* upcoming fixtures of the teams that have any.                           *)
C23_WildcardThresholds ==
    (lastOp.op = "_assess_wildcard" /\ lastOp.raised = "none" /\ TeamsWithFixtures # <<>>) =>
        lastOp.res =
            IF LeagueDifficultySum > 350 * Len(TeamsWithFixtures)
            THEN "Consider Wildcard - Many teams have tough fixtures"
            ELSE IF LeagueDifficultySum < 250 * Len(TeamsWithFixtures)
                 THEN "Good time for Wildcard - Many teams have easy fixtures"
                 ELSE "Neutral - No strong signal for Wildcard"

\* The gameweeks in which a team has a double gameweek: more than one
\* unfinished fixture.
DoubleGameweeks ==
    {gw \in 1..MaxGameweek :
        \E k \in DOMAIN Teams : Cardinality(UnfinishedIn(Teams[k].id, gw)) > 1}

\* The gameweeks with unfinished fixtures in which a team has none.
BlankGameweeks ==
    {gw \in 1..MaxGameweek :
        /\ \E k \in DOMAIN Teams : UnfinishedIn(Teams[k].id, gw) # {}
        /\ \E k \in DOMAIN Teams : UnfinishedIn(Teams[k].id, gw) = {}}

\* A list holds exactly the members of a set, each once.
ListsOnce(list, set) ==
    /\ {list[i] : i \in DOMAIN list} = set
    /\ Len(list) = Cardinality(set)

RankedAverages(row, n) ==
    {own.avg_difficulty : own \in OwnSideAnalyses(NamedTeam(row.team_name), n)}

\* The returned rows are one row for each team of the teams table.
EveryTeamOnce ==
    /\ Len(ReturnedRows) = Len(fa.teams_df.rows)
    /\ \A k \in DOMAIN fa.teams_df.rows :
           \E i \in DOMAIN ReturnedRows :
               /\ ReturnedRows[i].team_name = fa.teams_df.rows[k].name
               /\ ReturnedRows[i].team = fa.teams_df.rows[k].short_name

\* Rows i < j about teams that both have upcoming fixtures are in the order
\* of the teams' average difficulty over their next n fixtures.
RankedByDifficulty(n, ascending) ==
    \A i \in DOMAIN ReturnedRows : \A j \in DOMAIN ReturnedRows :
        ( /\ i < j
          /\ ~NoUpcoming(ReturnedRows[i].team_name)
          /\ ~NoUpcoming(ReturnedRows[j].team_name) )
        => \E a \in RankedAverages(ReturnedRows[i], n) :
               \E b \in RankedAverages(ReturnedRows[j], n) :
                   IF ascending THEN a <= b ELSE a >= b

\* The rows are in the order of the avg_difficulty column they carry.
RankedByColumn(ascending) ==
    \A i \in DOMAIN ReturnedRows : \A j \in DOMAIN ReturnedRows :
        i < j => IF ascending
                 THEN ReturnedRows[i].avg_difficulty <= ReturnedRows[j].avg_difficulty
                 ELSE ReturnedRows[i].avg_difficulty >= ReturnedRows[j].avg_difficulty

\* What does hold of the two rankings: one row for each team, in the order
\* of the avg_difficulty column, and the worst ranking has the rows of the
\* best ranking.
RankingStructure ==
    /\ (lastOp.op = "get_best_fixtures" /\ lastOp.raised = "none") =>
           EveryTeamOnce /\ RankedByColumn(TRUE)
    /\ (lastOp.op = "get_worst_fixtures" /\ lastOp.raised = "none") =>
           /\ EveryTeamOnce /\ RankedByColumn(FALSE)
           /\ \E best \in GetBestFixtures(fa, lastOp.args[1]) :
                  {ReturnedRows[i] : i \in DOMAIN ReturnedRows}
                      = {best.res.rows[i] : i \in DOMAIN best.res.rows}

(* C25: get_best_fixtures(N) returns every team of the teams table exactly *)
(* once, in non-decreasing order of the average difficulty of the team's   *)
(* next N fixtures; get_worst_fixtures(N) returns the same rows in         *)
(* non-increasing order of that average.                                   *)
C25_FixtureRanking ==
    /\ (lastOp.op = "get_best_fixtures" /\ lastOp.raised = "none") =>
           EveryTeamOnce /\ RankedByDifficulty(lastOp.args[1], TRUE)
    /\ (lastOp.op = "get_worst_fixtures" /\ lastOp.raised = "none") =>
           EveryTeamOnce /\ RankedByDifficulty(lastOp.args[1], FALSE)

\* The column each scoring function of the player table sorts on.
SortKey ==
    [get_best_value_players |-> "points_per_million",
     get_differential_picks |-> "diff_score",
     get_transfer_targets |-> "transfer_score",
     get_budget_options |-> "transfer_score",
     get_transfer_out_candidates |-> "sell_score",
     get_captaincy_picks |-> "captain_score"]

\* The place of a player in the player table.
TableIndex(web_name) ==
    CHOOSE k \in DOMAIN pa.players_df.rows : pa.players_df.rows[k].web_name = web_name

\* Two returned rows, i before j, have the same sort key.
Tied(i, j) ==
    /\ i < j
    /\ ReturnedRows[i][SortKey[lastOp.op]] # NotANumber
    /\ ReturnedRows[i][SortKey[lastOp.op]] = ReturnedRows[j][SortKey[lastOp.op]]

(* C26: in the output of a scoring function, two rows with equal sort key  *)
(* are in the relative order they have in the player table, and the top-N  *)
(* cut is determined by the table: the call has one possible result.       *)
C26_TiesKeepTableOrder ==
    /\ lastOp.op \in DOMAIN SortKey =>
           \A i \in DOMAIN ReturnedRows : \A j \in DOMAIN ReturnedRows :
               Tied(i, j) => TableIndex(ReturnedRows[i].web_name)
                                < TableIndex(ReturnedRows[j].web_name)
    /\ lastOp.op = "get_best_value_players" =>
           \A outcome \in GetBestValuePlayers(pa, lastOp.args[1], lastOp.args[2],
                                              lastOp.args[3]) :
               outcome.res = lastOp.res

(* C27: a fetch made with use_cache=False makes one network call for its   *)
(* endpoint, returns what that call received and not a cached payload, and *)
(* leaves the cache as it was: no entry is added, replaced or refreshed.   *)
C27_UncachedFetchBypassesCache ==
    (IsFetchOp(lastOp) /\ ~lastOp.use_cache) =>
        /\ Len(lastOp.net) = 1
        /\ lastOp.net[1].endpoint = lastOp.endpoint
        /\ lastOp.net[1].at >= lastOp.before.now
        /\ IF IsFailure(lastOp.net[1].resp)
           THEN lastOp.raised = "Exception"
           ELSE lastOp.raised = "none" /\ lastOp.res = lastOp.net[1].resp
        /\ cache = lastOp.before.cache

\* An uncached fetch of an endpoint whose cache entry is fresh receives
\* another payload than the cached one.
C27_Witness ==
    /\ IsFetchOp(lastOp)
    /\ ~lastOp.use_cache
    /\ lastOp.endpoint \in DOMAIN lastOp.before.cache
    /\ Truthy(lastOp.before.cache[lastOp.endpoint][1])
    /\ lastOp.before.now - lastOp.before.cache[lastOp.endpoint][2] < TTL
    /\ lastOp.raised = "none"
    /\ lastOp.res # lastOp.before.cache[lastOp.endpoint][1]
    /\ cache = lastOp.before.cache

\* The entry the cache held for the endpoint before the last operation.
EntryBefore == lastOp.before.cache[lastOp.endpoint]

\* A cached fetch of an endpoint the cache has an entry for.
CachedFetchOfEntry ==
    /\ IsFetchOp(lastOp)
    /\ lastOp.use_cache
    /\ lastOp.endpoint \in DOMAIN lastOp.before.cache

\* The entry is served before its expiry, unchanged, and after its expiry a
\* network call is made whose payload replaces it with a new timestamp.
ServedUntilExpiry ==
    IF lastOp.before.now - EntryBefore[2] < TTL
    THEN /\ lastOp.net = <<>>
         /\ lastOp.res = EntryBefore[1]
         /\ cache = lastOp.before.cache
    ELSE /\ Len(lastOp.net) = 1
         /\ lastOp.net[1].endpoint = lastOp.endpoint
         /\ ~IsFailure(lastOp.net[1].resp) =>
                /\ lastOp.res = lastOp.net[1].resp
                /\ cache[lastOp.endpoint][1] = lastOp.net[1].resp
                /\ cache[lastOp.endpoint][2] >= lastOp.net[1].at
                /\ cache[lastOp.endpoint][2] > EntryBefore[2]

\* What does hold: the fixed expiry of an entry whose payload is not empty.
FixedExpiryOfTruthy ==
    (CachedFetchOfEntry /\ Truthy(EntryBefore[1])) => ServedUntilExpiry

(* C28: cache expiry is fixed: an entry stored at time t is served by a     *)
(* cached fetch at a time before t + cache_duration, the hit leaving the    *)
(* entry and its timestamp unchanged, and is not served at t +              *)
(* cache_duration or later, when the cached fetch makes a network call and  *)
(* replaces the entry with the new payload and a new timestamp.             *)
C28_FixedExpiry == CachedFetchOfEntry => ServedUntilExpiry

\* The network calls of the last operation that fetched the endpoint.
FetchesOf(endpoint) == {i \in DOMAIN lastOp.net : lastOp.net[i].endpoint = endpoint}

\* The player analyzer's tables and the fixture analyzer's teams table are
\* those of the payload the i-th network call received.
BuiltFromOnePayload(i) ==
    /\ pa = LoadedPlayerAnalyzer(Fetched(i))
    /\ fa.teams_df = DataFrame(Fetched(i).teams)

(* C29: after TransferAdvisor.refresh_data() the player analyzer's tables   *)
(* and the fixture analyzer's teams table are built from one and the same   *)
(* bootstrap payload: the refresh makes exactly one network fetch of the    *)
(* bootstrap endpoint and one of the fixtures endpoint.                     *)
C29_RefreshFromOnePayload ==
    (lastOp.op = "TransferAdvisor.refresh_data" /\ lastOp.raised = "none") =>
        /\ Cardinality(FetchesOf(BOOTSTRAP)) = 1
        /\ Cardinality(FetchesOf(FIXTURES)) = 1
        /\ \E i \in FetchesOf(BOOTSTRAP) : BuiltFromOnePayload(i)

\* A refresh that fetched the bootstrap endpoint twice and received two
\* different payloads: the player tables are built from the first and the
\* fixture analyzer's teams table from the second.
RefreshedFromTwoPayloads ==
    /\ lastOp.op = "TransferAdvisor.refresh_data"
    /\ lastOp.raised = "none"
    /\ FetchesOf(BOOTSTRAP) = {1, 3}
    /\ Fetched(1) # Fetched(3)
    /\ pa = LoadedPlayerAnalyzer(Fetched(1))
    /\ fa.teams_df = DataFrame(Fetched(3).teams)

\* The results a call for the team's n earliest unfinished fixtures may
\* give, one for each order of fixtures of the same gameweek.
EarliestUpcoming(team, n) ==
    {FrameHead(Project(sorted, UpcomingColumns), n).rows :
        sorted \in SortValues(UpcomingOf(team), LAMBDA row : row.event, TRUE)}

OthersLeftOut ==
    /\ lastOp.op = "get_upcoming_fixtures"
    /\ lastOp.raised = "none"
    /\ IsFullName(lastOp.args[1])
    /\ Len(ReturnedRows) = 1
    /\ \E k \in DOMAIN fa.fixtures_df.rows :
           /\ fa.fixtures_df.rows[k].finished = FALSE
           /\ NamedTeam(lastOp.args[1]).id
                  \notin {fa.fixtures_df.rows[k].team_h, fa.fixtures_df.rows[k].team_a}

====
